---- MODULE Spec2Model ----
(***************************************************************************)
(* Preemption victim selection of the scheduler core                       *)
(* (pkg/scheduler/objects/preemption.go): the precondition gate, the queue *)
(* snapshot arena and TryPreemption with its helpers.                      *)
(*                                                                         *)
(* A *resources.Resource is a function from a subset of ResTypes to Int;   *)
(* the nil pointer is NilRes.  Snapshots are heap objects: an object is    *)
(* named <<tree, queuePath>> (tree 0 is the preemptor's allocationsByQueue *)
(* map, every duplicateQueueSnapshots call fills a new tree) and each of   *)
(* its resource fields holds the address of a cell of the heap, so that    *)
(* sharing a Resource between two snapshots is expressible.                *)
(***************************************************************************)
EXTENDS Integers, Sequences, FiniteSets, TLC

VARIABLES
    world,      \* heap of queue snapshots: [snaps, cells, next]
    allocs,     \* allocation key -> allocation (the potential victims)
    nodes,      \* node id -> node, as the node iterator shows it
    ask,        \* the ask the preemptor works for
    live,       \* live queue path -> preemptingResource of that queue
    env,        \* per-preemptor inputs: preemptionDelay, nodesTried, oracle
    now,        \* the wall clock read by time.Now()
    p,          \* the preemptor's lazily populated work structures
    released,   \* release notifications sent to the RM, in order
    last,       \* what the last call was and what it returned
    gateLog,    \* the outcomes of the last two CheckPreconditions calls
    calls,      \* how many AddAllocation / RemoveAllocation calls were made
    co          \* a call of checkPreemptionPredicates with its goroutines

vars == <<world, allocs, nodes, ask, live, env, now, p, released, last, gateLog, calls, co>>

(***************************************************************************)
(* Resource algebra (package resources)                                    *)
(***************************************************************************)
ResTypes == {"vcore", "memory"}

NilRes == [k \in {"nil"} |-> 0]

NewResource == [k \in {} |-> 0]

Zero == NewResource

Val(r, k) == IF k \in DOMAIN r THEN r[k] ELSE 0

OrZero(r) == IF r = NilRes THEN Zero ELSE r

Min(a, b) == IF a <= b THEN a ELSE b

IsEmpty(r) == r = NilRes \/ \A k \in DOMAIN r : r[k] = 0

Clone(r) == r

Add(left, right) ==
    LET l == OrZero(left)
        r == OrZero(right)
    IN  [k \in DOMAIN l \cup DOMAIN r |-> Val(l, k) + Val(r, k)]

AddTo(r, add) ==
    IF r = NilRes \/ add = NilRes THEN r
    ELSE [k \in DOMAIN r \cup DOMAIN add |-> Val(r, k) + Val(add, k)]

SubFrom(r, sub) ==
    IF r = NilRes \/ sub = NilRes THEN r
    ELSE [k \in DOMAIN r \cup DOMAIN sub |-> Val(r, k) - Val(sub, k)]

SubOnlyExisting(base, delta) ==
    IF base = NilRes \/ delta = NilRes THEN base
    ELSE [k \in DOMAIN base |-> base[k] - Val(delta, k)]

SubEliminateNegative(left, right) ==
    LET l == OrZero(left)
        r == OrZero(right)
    IN  [k \in DOMAIN l \cup DOMAIN r |->
            IF Val(l, k) - Val(r, k) < 0 THEN 0 ELSE Val(l, k) - Val(r, k)]

Equals(left, right) ==
    \/ left = right
    \/ /\ left # NilRes
       /\ right # NilRes
       /\ \A k \in DOMAIN left \cup DOMAIN right : Val(left, k) = Val(right, k)

EqualsOrEmpty(left, right) ==
    (IsEmpty(left) /\ IsEmpty(right)) \/ Equals(left, right)

StrictlyGreaterThanOrEquals(larger, smaller) ==
    LET l == OrZero(larger)
        s == OrZero(smaller)
    IN  \A k \in DOMAIN l \cup DOMAIN s : Val(l, k) >= Val(s, k)

StrictlyGreaterThan(larger, smaller) ==
    LET l == OrZero(larger)
        s == OrZero(smaller)
    IN  \E k \in DOMAIN l \cup DOMAIN s : Val(l, k) > Val(s, k)

StrictlyGreaterThanOnlyExisting(r, smaller) ==
    LET l == OrZero(r)
        s == OrZero(smaller)
    IN  \E k \in DOMAIN l : l[k] > Val(s, k)

FitIn(r, smaller) ==
    \/ smaller = NilRes
    \/ \A k \in DOMAIN smaller : smaller[k] <= Val(OrZero(r), k)

ComponentWiseMin(left, right) ==
    IF left = NilRes THEN right
    ELSE IF right = NilRes THEN left
    ELSE [k \in DOMAIN left \cup DOMAIN right |->
            IF k \notin DOMAIN right THEN left[k]
            ELSE IF k \notin DOMAIN left THEN right[k]
            ELSE Min(left[k], right[k])]

ComponentWiseMinOnlyExisting(left, right) ==
    IF left = NilRes THEN NilRes
    ELSE IF right = NilRes THEN left
    ELSE [k \in DOMAIN left |->
            IF k \in DOMAIN right THEN Min(left[k], right[k]) ELSE left[k]]

MergeIfNotPresent(left, right) ==
    IF left = NilRes THEN right
    ELSE IF right = NilRes THEN left
    ELSE [k \in DOMAIN left \cup DOMAIN right |->
            IF k \in DOMAIN left THEN left[k] ELSE right[k]]

(***************************************************************************)
(* Queue snapshots                                                         *)
(***************************************************************************)
NilSnap == <<0 - 1, <<"nil">>>>

OrigTree == 0

Obj(t, path) == <<t, path>>

TreeOf(obj) == obj[1]

PathOf(obj) == obj[2]

ResFields == {"AllocatedResource", "PreemptingResource", "MaxResource", "GuaranteedResource"}

Cell(t, path, f) == <<t, path, f>>

\* the paths of the snapshots held by the map that tree t stands for
PathsOf(w, t) == {PathOf(o) : o \in {x \in DOMAIN w.snaps : TreeOf(x) = t}}

\* field f of snapshot obj, read through its pointer
Field(w, obj, f) == w.cells[w.snaps[obj][f]]

\* strings.HasPrefix; a queue path is the sequence of the pieces of its name
\* (<<"root", ".a">> is "root.a"), so that a prefix of pieces is a prefix of
\* characters
HasPrefix(s, prefix) ==
    /\ Len(prefix) <= Len(s)
    /\ SubSeq(s, 1, Len(prefix)) = prefix

\* QueuePreemptionSnapshot.Duplicate: the world after copying obj into map t
RECURSIVE Duplicate(_, _, _)
MutDuplicate(w, obj, t) ==
    IF obj = NilSnap THEN w
    ELSE IF Obj(t, PathOf(obj)) \in DOMAIN w.snaps THEN w
    ELSE LET qps == w.snaps[obj]
             w1  == Duplicate(w, qps.Parent, t)
             parent == IF qps.Parent = NilSnap THEN NilSnap
                       ELSE Obj(t, PathOf(qps.Parent))
             path == qps.QueuePath
             snapshot ==
                 [Parent |-> parent,
                  QueuePath |-> path,
                  Leaf |-> qps.Leaf,
                  AllocatedResource |-> qps.AllocatedResource,
                  PreemptingResource |-> Cell(t, path, "PreemptingResource"),
                  MaxResource |-> Cell(t, path, "MaxResource"),
                  GuaranteedResource |-> Cell(t, path, "GuaranteedResource"),
                  PotentialVictims |-> qps.PotentialVictims,
                  AskQueue |-> qps.AskQueue]
         IN  [w1 EXCEPT
                !.snaps = (Obj(t, path) :> snapshot) @@ @,
                !.cells = [c \in {Cell(t, path, f) : f \in ResFields \ {"AllocatedResource"}}
                              |-> Clone(w1.cells[qps[c[3]]])] @@ @]

Duplicate(w, obj, t) ==
    IF obj = NilSnap THEN w
    ELSE IF Obj(t, PathOf(obj)) \in DOMAIN w.snaps THEN w
    ELSE LET qps == w.snaps[obj]
             w1  == Duplicate(Duplicate(w, qps.Parent, t), qps.Parent, t)
             parent == IF qps.Parent = NilSnap THEN NilSnap
                       ELSE Obj(t, PathOf(qps.Parent))
             path == qps.QueuePath
             snapshot ==
                 [Parent |-> parent,
                  QueuePath |-> path,
                  Leaf |-> qps.Leaf,
                  AllocatedResource |-> Cell(t, path, "AllocatedResource"),
                  PreemptingResource |-> Cell(t, path, "PreemptingResource"),
                  MaxResource |-> Cell(t, path, "MaxResource"),
                  GuaranteedResource |-> Cell(t, path, "GuaranteedResource"),
                  PotentialVictims |-> qps.PotentialVictims,
                  AskQueue |-> qps.AskQueue]
         IN  [w1 EXCEPT
                !.snaps = (Obj(t, path) :> snapshot) @@ @,
                !.cells = [c \in {Cell(t, path, f) : f \in ResFields}
                              |-> Clone(w1.cells[qps[c[3]]])] @@ @]

\* Preemptor.duplicateQueueSnapshots: a fresh map (tree w.next) holding a
\* copy of every snapshot of allocationsByQueue; the map's iteration order
\* does not show in the result
RECURSIVE DuplicateAll(_, _, _)
DuplicateAll(w, paths, t) ==
    IF paths = {} THEN w
    ELSE LET path == CHOOSE x \in paths : TRUE
         IN  DuplicateAll(Duplicate(w, Obj(OrigTree, path), t), paths \ {path}, t)

duplicateQueueSnapshots(w) ==
    [DuplicateAll(w, PathsOf(w, OrigTree), w.next) EXCEPT !.next = w.next + 1]

\* the heap once the maps duplicated since tree t0 are garbage: a map made
\* inside a function is unreachable when the function returns
Release(w, t0) ==
    [snaps |-> [o \in {x \in DOMAIN w.snaps : TreeOf(x) < t0} |-> w.snaps[o]],
     cells |-> [c \in {x \in DOMAIN w.cells : x[1] < t0} |-> w.cells[c]],
     next |-> t0]

\* QueuePreemptionSnapshot.AddAllocation
RECURSIVE AddAllocation(_, _, _)
MutAddAllocation(w, obj, alloc) ==
    IF obj = NilSnap THEN w
    ELSE [w EXCEPT !.cells[w.snaps[obj].AllocatedResource] = AddTo(@, alloc)]

AddAllocation(w, obj, alloc) ==
    IF obj = NilSnap THEN w
    ELSE LET w1 == AddAllocation(w, w.snaps[obj].Parent, alloc)
         IN  [w1 EXCEPT !.cells[w.snaps[obj].AllocatedResource] = AddTo(@, alloc)]

\* QueuePreemptionSnapshot.RemoveAllocation
RECURSIVE RemoveAllocation(_, _, _)
RemoveAllocation(w, obj, alloc) ==
    IF obj = NilSnap THEN w
    ELSE LET w1 == RemoveAllocation(w, w.snaps[obj].Parent, alloc)
         IN  [w1 EXCEPT !.cells[w.snaps[obj].AllocatedResource] = SubFrom(@, alloc)]

\* QueuePreemptionSnapshot.GetPreemptableResource
RECURSIVE GetPreemptableResource(_, _)
\* GetPreemptableResource with v < 0 for v <= 0 at line 707: a type used
\* exactly up to the guarantee is kept
MutGetPreemptableResource(w, obj) ==
    IF obj = NilSnap \/ IsEmpty(Field(w, obj, "AllocatedResource")) THEN NilRes
    ELSE LET parentPreemptableResource == GetPreemptableResource(w, w.snaps[obj].Parent)
             actual0 == SubOnlyExisting(Field(w, obj, "AllocatedResource"),
                                        Field(w, obj, "PreemptingResource"))
             actual == SubOnlyExisting(actual0, Field(w, obj, "GuaranteedResource"))
             preemptableResource ==
                 [k \in {x \in DOMAIN actual : actual[x] >= 0} |-> actual[k]]
         IN  IF IsEmpty(preemptableResource) THEN preemptableResource
             ELSE ComponentWiseMinOnlyExisting(preemptableResource, parentPreemptableResource)

GetPreemptableResource(w, obj) ==
    IF obj = NilSnap \/ IsEmpty(Field(w, obj, "AllocatedResource")) THEN NilRes
    ELSE LET parentPreemptableResource == GetPreemptableResource(w, w.snaps[obj].Parent)
             actual0 == SubOnlyExisting(Field(w, obj, "AllocatedResource"),
                                        Field(w, obj, "PreemptingResource"))
             actual == SubOnlyExisting(actual0, Field(w, obj, "GuaranteedResource"))
             preemptableResource ==
                 [k \in {x \in DOMAIN actual : actual[x] > 0} |-> actual[k]]
         IN  IF IsEmpty(preemptableResource) THEN preemptableResource
             ELSE ComponentWiseMinOnlyExisting(preemptableResource, parentPreemptableResource)

\* QueuePreemptionSnapshot.GetRemainingGuaranteedResource
RECURSIVE GetRemainingGuaranteedResource(_, _)
GetRemainingGuaranteedResource(w, obj) ==
    IF obj = NilSnap THEN NilRes
    ELSE LET qps == w.snaps[obj]
             parent == GetRemainingGuaranteedResource(w, qps.Parent)
             guaranteed == Field(w, obj, "GuaranteedResource")
             used == SubOnlyExisting(Field(w, obj, "AllocatedResource"),
                                     Field(w, obj, "PreemptingResource"))
             remainingGuaranteed == SubOnlyExisting(guaranteed, used)
             askQueueUsed ==
                 SubOnlyExisting(Clone(Field(w, qps.AskQueue, "AllocatedResource")),
                                 Field(w, qps.AskQueue, "PreemptingResource"))
             askQueueRemainingGuaranteed ==
                 SubOnlyExisting(Clone(Field(w, qps.AskQueue, "GuaranteedResource")),
                                 askQueueUsed)
         IN  IF IsEmpty(parent) /\ IsEmpty(guaranteed) THEN NilRes
             ELSE IF /\ qps.AskQueue # NilSnap
                     /\ w.snaps[qps.AskQueue].QueuePath = qps.QueuePath
                     /\ ~IsEmpty(remainingGuaranteed)
                  THEN MergeIfNotPresent(remainingGuaranteed, parent)
             ELSE IF /\ qps.AskQueue # NilSnap
                     /\ ~IsEmpty(remainingGuaranteed)
                     /\ HasPrefix(w.snaps[qps.AskQueue].QueuePath, qps.QueuePath)
                     /\ ~IsEmpty(askQueueRemainingGuaranteed)
                  THEN NilRes
             ELSE ComponentWiseMin(remainingGuaranteed, parent)

\* QueuePreemptionSnapshot.GetGuaranteedResource
RECURSIVE GetGuaranteedResource(_, _)
GetGuaranteedResource(w, obj) ==
    IF obj = NilSnap THEN NewResource
    ELSE ComponentWiseMin(GetGuaranteedResource(w, w.snaps[obj].Parent),
                          Field(w, obj, "GuaranteedResource"))

\* QueuePreemptionSnapshot.GetMaxResource
RECURSIVE GetMaxResource(_, _)
GetMaxResource(w, obj) ==
    IF obj = NilSnap THEN NewResource
    ELSE ComponentWiseMin(GetMaxResource(w, w.snaps[obj].Parent),
                          Field(w, obj, "MaxResource"))

(***************************************************************************)
(* Victim ordering                                                         *)
(***************************************************************************)
\* the score bits 1<<32 .. 1<<35, scaled to 1<<20 .. 1<<23 to stay within the
\* integers of TLC; the low bits of a score count victims and stay
\* far below 1<<20, so every comparison of two scores is kept
scoreFitMax == 2^20

scoreOriginator == 2^21

scoreNoPreempt == 2^22

scoreUnfit == 2^23

scoreAllocation(allocation) ==
    (IF allocation.originator THEN scoreOriginator ELSE 0)
    + (IF ~allocation.allowPreemptSelf THEN scoreNoPreempt ELSE 0)

compareAllocationLess(left, right) ==
    IF scoreAllocation(left) # scoreAllocation(right)
    THEN scoreAllocation(left) < scoreAllocation(right)
    ELSE left.createTime > right.createTime

\* the less function of sortVictimsForPreemption
victimLess(leftAsk, rightAsk) ==
    IF leftAsk.allowPreemptSelf /\ ~rightAsk.allowPreemptSelf THEN TRUE
    ELSE IF rightAsk.allowPreemptSelf /\ ~leftAsk.allowPreemptSelf THEN FALSE
    ELSE IF leftAsk.originator /\ ~rightAsk.originator THEN FALSE
    ELSE IF rightAsk.originator /\ ~leftAsk.originator THEN TRUE
    ELSE leftAsk.createTime > rightAsk.createTime

\* sort.SliceStable on a list of allocation keys: x goes behind every element
\* that is not greater than it
RECURSIVE InsertBy(_, _, _)
InsertBy(x, sorted, useScore) ==
    IF sorted = <<>> THEN <<x>>
    ELSE LET less == IF useScore
                     THEN compareAllocationLess(allocs[x], allocs[Head(sorted)])
                     ELSE victimLess(allocs[x], allocs[Head(sorted)])
         IN  IF less THEN <<x>> \o sorted
             ELSE <<Head(sorted)>> \o InsertBy(x, Tail(sorted), useScore)

RECURSIVE SortStable(_, _)
SortStable(list, useScore) ==
    IF list = <<>> THEN <<>>
    ELSE InsertBy(list[Len(list)], SortStable(SubSeq(list, 1, Len(list) - 1), useScore),
                  useScore)

(***************************************************************************)
(* Working state (initWorkingState)                                        *)
(***************************************************************************)
RECURSIVE Concat(_)
Concat(lists) ==
    IF lists = <<>> THEN <<>> ELSE Head(lists) \o Concat(Tail(lists))

RECURSIVE Filter(_, _)
Filter(list, keep) ==
    IF list = <<>> THEN <<>>
    ELSE (IF Head(list) \in keep THEN <<Head(list)>> ELSE <<>>) \o Filter(Tail(list), keep)

Range(list) == {list[i] : i \in 1..Len(list)}

\* every potential victim of every snapshot of allocationsByQueue, the
\* snapshots visited in the order the map iteration happens to take
VictimsInOrder(w, order) ==
    Concat([i \in 1..Len(order) |-> w.snaps[Obj(OrigTree, order[i])].PotentialVictims])

IsSchedulable(node) == node.state # "unschedulable"

IsReserved(node) == node.state \in {"reservedAsk", "reservedOther"}

isReservedForAllocation(node, key) == node.state = "reservedAsk" /\ key = ask.allocationKey

FitInNode(node, res) == FitIn(node.capacity, res)

\* the test of line 163 without the reservation and the capacity of the node
MutNodeUsable(node) == IsSchedulable(node)

NodeUsable(node) ==
    ~(\/ ~IsSchedulable(node)
      \/ (IsReserved(node) /\ ~isReservedForAllocation(node, ask.allocationKey))
      \/ ~FitInNode(node, ask.allocatedResource))

\* the three maps initWorkingState builds; order is the iteration order of
\* allocationsByQueue
initWorkingState(w, order) ==
    LET all == VictimsInOrder(w, order)
        byNode == [n \in {allocs[k].nodeID : k \in Range(all)} |->
                      Filter(all, {k \in Range(all) : allocs[k].nodeID = n})]
        kept == {n \in DOMAIN byNode : ~(n \in DOMAIN nodes /\ ~NodeUsable(nodes[n]))}
    IN  [ready |-> TRUE,
         allocationsByNode |-> [n \in kept |-> SortStable(byNode[n], FALSE)],
         queueByAlloc |->
             [k \in Range(all) |->
                 CHOOSE path \in PathsOf(w, OrigTree) :
                     k \in Range(w.snaps[Obj(OrigTree, path)].PotentialVictims)],
         nodeAvailableMap |->
             [n \in {x \in DOMAIN nodes : NodeUsable(nodes[x])} |-> nodes[n].available]]

NoWorkingState ==
    [ready |-> FALSE, allocationsByNode |-> <<>>, queueByAlloc |-> <<>>,
     nodeAvailableMap |-> <<>>]

(***************************************************************************)
(* Per-node victim calculator (calculateVictimsByNode)                     *)
(***************************************************************************)
\* the queue guard shared by pass 1, pass 2 and the top-up: victim may go
\* when, after its removal, the preemptable resource of its queue is >= 0
\* and the remaining guarantee before the removal was nil or negative
MutVictimAllowed(preemptableResource, oldRemaining) ==
    /\ StrictlyGreaterThanOrEquals(preemptableResource, Zero)
    /\ oldRemaining # NilRes
    /\ StrictlyGreaterThan(Zero, oldRemaining)

VictimAllowed(preemptableResource, oldRemaining) ==
    /\ StrictlyGreaterThanOrEquals(preemptableResource, Zero)
    /\ (oldRemaining = NilRes \/ StrictlyGreaterThan(Zero, oldRemaining))

\* what a simulation step leaves in the log when it accepts a victim: the
\* usage and the effective guarantee of the victim's queue right after the
\* removal
Accepted(phase, w, queueSnapshot, key) ==
    [phase |-> phase,
     key |-> key,
     queuePath |-> w.snaps[queueSnapshot].QueuePath,
     used |-> SubOnlyExisting(Field(w, queueSnapshot, "AllocatedResource"),
                              Field(w, queueSnapshot, "PreemptingResource")),
     guaranteed |-> GetGuaranteedResource(w, queueSnapshot)]

\* the first pass with a victim that lowers the shortfall without closing
\* it put on the tail (the test of line 271 asking for no shortfall left)
MutPartlyToTail(st, ps, t, askQueue, key) ==
    IF key \notin DOMAIN ps.queueByAlloc
       \/ Obj(t, ps.queueByAlloc[key]) \notin DOMAIN st.w.snaps
    THEN st
    ELSE LET queueSnapshot == Obj(t, ps.queueByAlloc[key])
             res == allocs[key].allocatedResource
             oldRemaining == GetRemainingGuaranteedResource(st.w, queueSnapshot)
             w1 == RemoveAllocation(st.w, queueSnapshot, res)
             preemptableResource == GetPreemptableResource(w1, queueSnapshot)
             w2 == AddAllocation(w1, askQueue, res)
             askQueueNewRemaining == GetRemainingGuaranteedResource(w2, askQueue)
             undone == AddAllocation(RemoveAllocation(w2, askQueue, res), queueSnapshot, res)
             shortfall == SubEliminateNegative(ask.allocatedResource, st.nodeCurrentAvailable)
             newAvailable == Add(st.nodeCurrentAvailable, res)
             newShortfall == SubEliminateNegative(ask.allocatedResource, newAvailable)
         IN  IF ~VictimAllowed(preemptableResource, oldRemaining)
             THEN [st EXCEPT !.w = AddAllocation(w1, queueSnapshot, res)]
             ELSE IF askQueueNewRemaining # NilRes
                     /\ StrictlyGreaterThan(Zero, askQueueNewRemaining)
             THEN [st EXCEPT !.w = undone, !.stop = TRUE]
             ELSE IF EqualsOrEmpty(shortfall, newShortfall) \/ ~IsEmpty(newShortfall)
             THEN [st EXCEPT !.w = undone, !.tail = Append(@, key)]
             ELSE [st EXCEPT !.w = w2,
                             !.nodeCurrentAvailable = AddTo(@, res),
                             !.head = Append(@, key)]

\* the first pass with `continue` for the `break` of line 264
MutNoBreak(st, ps, t, askQueue, key) ==
    IF key \notin DOMAIN ps.queueByAlloc
       \/ Obj(t, ps.queueByAlloc[key]) \notin DOMAIN st.w.snaps
    THEN st
    ELSE LET queueSnapshot == Obj(t, ps.queueByAlloc[key])
             res == allocs[key].allocatedResource
             oldRemaining == GetRemainingGuaranteedResource(st.w, queueSnapshot)
             w1 == RemoveAllocation(st.w, queueSnapshot, res)
             preemptableResource == GetPreemptableResource(w1, queueSnapshot)
             w2 == AddAllocation(w1, askQueue, res)
             askQueueNewRemaining == GetRemainingGuaranteedResource(w2, askQueue)
             undone == AddAllocation(RemoveAllocation(w2, askQueue, res), queueSnapshot, res)
             shortfall == SubEliminateNegative(ask.allocatedResource, st.nodeCurrentAvailable)
             newAvailable == Add(st.nodeCurrentAvailable, res)
             newShortfall == SubEliminateNegative(ask.allocatedResource, newAvailable)
         IN  IF ~VictimAllowed(preemptableResource, oldRemaining)
             THEN [st EXCEPT !.w = AddAllocation(w1, queueSnapshot, res)]
             ELSE IF askQueueNewRemaining # NilRes
                     /\ StrictlyGreaterThan(Zero, askQueueNewRemaining)
             THEN [st EXCEPT !.w = undone]
             ELSE IF EqualsOrEmpty(shortfall, newShortfall)
             THEN [st EXCEPT !.w = undone, !.tail = Append(@, key)]
             ELSE [st EXCEPT !.w = w2,
                             !.nodeCurrentAvailable = AddTo(@, res),
                             !.head = Append(@, key)]

\* one iteration of the first pass (lines 239-287); st is the loop state
pass1Step(st, ps, t, askQueue, key) ==
    IF key \notin DOMAIN ps.queueByAlloc
       \/ Obj(t, ps.queueByAlloc[key]) \notin DOMAIN st.w.snaps
    THEN st
    ELSE LET queueSnapshot == Obj(t, ps.queueByAlloc[key])
             res == allocs[key].allocatedResource
             oldRemaining == GetRemainingGuaranteedResource(st.w, queueSnapshot)
             w1 == RemoveAllocation(st.w, queueSnapshot, res)
             preemptableResource == GetPreemptableResource(w1, queueSnapshot)
             w2 == AddAllocation(w1, askQueue, res)
             askQueueNewRemaining == GetRemainingGuaranteedResource(w2, askQueue)
             undone == AddAllocation(RemoveAllocation(w2, askQueue, res), queueSnapshot, res)
             shortfall == SubEliminateNegative(ask.allocatedResource, st.nodeCurrentAvailable)
             newAvailable == Add(st.nodeCurrentAvailable, res)
             newShortfall == SubEliminateNegative(ask.allocatedResource, newAvailable)
         IN  IF ~VictimAllowed(preemptableResource, oldRemaining)
             THEN [st EXCEPT !.w = AddAllocation(w1, queueSnapshot, res)]
             ELSE IF askQueueNewRemaining # NilRes
                     /\ StrictlyGreaterThan(Zero, askQueueNewRemaining)
             THEN [st EXCEPT !.w = undone, !.stop = TRUE]
             ELSE IF EqualsOrEmpty(shortfall, newShortfall)
             THEN [st EXCEPT !.w = undone, !.tail = Append(@, key)]
             ELSE [st EXCEPT !.w = w2,
                             !.nodeCurrentAvailable = AddTo(@, res),
                             !.head = Append(@, key)]

RECURSIVE pass1(_, _, _, _, _, _)
pass1(st, ps, t, askQueue, potentialVictims, i) ==
    IF i > Len(potentialVictims) \/ st.stop THEN st
    ELSE pass1(pass1Step(st, ps, t, askQueue, potentialVictims[i]),
               ps, t, askQueue, potentialVictims, i + 1)

\* the second pass without `&& index < 0` at line 329: the index is that of
\* the last victim with which the ask fits
MutLastFit(st, ps, t, key) ==
    IF key \notin DOMAIN ps.queueByAlloc
       \/ Obj(t, ps.queueByAlloc[key]) \notin DOMAIN st.w.snaps
    THEN st
    ELSE LET queueSnapshot == Obj(t, ps.queueByAlloc[key])
             res == allocs[key].allocatedResource
             oldRemaining == GetRemainingGuaranteedResource(st.w, queueSnapshot)
             w1 == RemoveAllocation(st.w, queueSnapshot, res)
             preemptableResource == GetPreemptableResource(w1, queueSnapshot)
             avail == AddTo(st.nodeCurrentAvailable, res)
         IN  IF VictimAllowed(preemptableResource, oldRemaining)
             THEN [st EXCEPT
                     !.w = w1,
                     !.nodeCurrentAvailable = avail,
                     !.index = IF FitIn(avail, ask.allocatedResource)
                               THEN Len(st.results) ELSE @,
                     !.results = Append(@, key),
                     !.log = Append(@, Accepted("pass2", w1, queueSnapshot, key))]
             ELSE [st EXCEPT !.w = AddAllocation(w1, queueSnapshot, res)]

\* one iteration of the second pass (lines 311-340)
pass2Step(st, ps, t, key) ==
    IF key \notin DOMAIN ps.queueByAlloc
       \/ Obj(t, ps.queueByAlloc[key]) \notin DOMAIN st.w.snaps
    THEN st
    ELSE LET queueSnapshot == Obj(t, ps.queueByAlloc[key])
             res == allocs[key].allocatedResource
             oldRemaining == GetRemainingGuaranteedResource(st.w, queueSnapshot)
             w1 == RemoveAllocation(st.w, queueSnapshot, res)
             preemptableResource == GetPreemptableResource(w1, queueSnapshot)
             avail == AddTo(st.nodeCurrentAvailable, res)
         IN  IF VictimAllowed(preemptableResource, oldRemaining)
             THEN [st EXCEPT
                     !.w = w1,
                     !.nodeCurrentAvailable = avail,
                     !.index = IF FitIn(avail, ask.allocatedResource) /\ st.index < 0
                               THEN Len(st.results) ELSE @,
                     !.results = Append(@, key),
                     !.log = Append(@, Accepted("pass2", w1, queueSnapshot, key))]
             ELSE [st EXCEPT !.w = AddAllocation(w1, queueSnapshot, res)]

RECURSIVE pass2(_, _, _, _, _)
pass2(st, ps, t, head, i) ==
    IF i > Len(head) THEN st
    ELSE pass2(pass2Step(st, ps, t, head[i]), ps, t, head, i + 1)

\* calculateVictimsByNode: [index, victims, nilVictims, w, log]; nilVictims
\* tells the nil list from the empty one
\* (each stage is an operator of the values computed before it, so that a
\* value is computed once)
calculateVictimsByNode(w, ps, nodeAvailable, potentialVictims) ==
    LET ta == w.next
        askQueue == Obj(ta, ask.queuePath)
        none(ww) == [index |-> 0 - 1, victims |-> <<>>, nilVictims |-> TRUE,
                     w |-> Release(ww, ta), log |-> <<>>]
        \* lines 342-347: the outcome of the second pass
        outcome(second) ==
            IF second.index < 0 THEN none(second.w)
            ELSE [index |-> second.index, victims |-> second.results, nilVictims |-> FALSE,
                  w |-> Release(second.w, ta), log |-> second.log]
        \* lines 301-340: the second pass on the fresh copy wb
        secondPass(head, wb) ==
            IF Obj(ta, ask.queuePath) \notin DOMAIN wb.snaps THEN none(wb)
            ELSE outcome(pass2([w |-> wb, nodeCurrentAvailable |-> Clone(nodeAvailable),
                                index |-> 0 - 1, results |-> <<>>, log |-> <<>>],
                               ps, ta, head, 1))
        \* lines 288-299: the lists are merged and the snapshots cloned again
        merge(first) ==
            IF Len(first.head \o first.tail) = 0 THEN none(first.w)
            ELSE secondPass(first.head \o first.tail,
                            duplicateQueueSnapshots(Release(first.w, ta)))
        \* lines 223-287: the first pass on the copy wa
        firstPass(wa) ==
            IF askQueue \notin DOMAIN wa.snaps THEN none(wa)
            ELSE merge(pass1([w |-> wa, nodeCurrentAvailable |-> Clone(nodeAvailable),
                              head |-> <<>>, tail |-> <<>>, stop |-> FALSE],
                             ps, ta, askQueue, potentialVictims, 1))
    IN  IF FitIn(nodeAvailable, ask.allocatedResource)
        THEN [index |-> 0 - 1, victims |-> <<>>, nilVictims |-> FALSE, w |-> w, log |-> <<>>]
        ELSE firstPass(duplicateQueueSnapshots(w))

(***************************************************************************)
(* Feasibility precheck (checkPreemptionQueueGuarantees)                   *)
(***************************************************************************)
\* the victims of one snapshot, removed in turn (lines 198-204)
RECURSIVE removeUntilFits(_, _, _, _, _)
removeUntilFits(w, snapshot, currentQueue, victims, i) ==
    IF i > Len(victims) THEN [ok |-> FALSE, w |-> w]
    ELSE LET w1 == RemoveAllocation(w, snapshot, allocs[victims[i]].allocatedResource)
             remaining == GetRemainingGuaranteedResource(w1, currentQueue)
         IN  IF remaining # NilRes /\ StrictlyGreaterThanOrEquals(remaining, Zero)
             THEN [ok |-> TRUE, w |-> w1]
             ELSE removeUntilFits(w1, snapshot, currentQueue, victims, i + 1)

\* the loop over the duplicated map left after the first snapshot visited
MutGuaranteesLoop(w, t, currentQueue, order, j) ==
    IF j > Len(order) THEN [ok |-> FALSE, w |-> w]
    ELSE removeUntilFits(w, Obj(t, order[j]), currentQueue,
                         w.snaps[Obj(t, order[j])].PotentialVictims, 1)

\* the snapshots of the duplicated map, visited in the order `order`
RECURSIVE guaranteesLoop(_, _, _, _, _)
guaranteesLoop(w, t, currentQueue, order, j) ==
    IF j > Len(order) THEN [ok |-> FALSE, w |-> w]
    ELSE LET snapshot == Obj(t, order[j])
             r == removeUntilFits(w, snapshot, currentQueue,
                                  w.snaps[snapshot].PotentialVictims, 1)
         IN  IF r.ok THEN r ELSE guaranteesLoop(r.w, t, currentQueue, order, j + 1)

\* checkPreemptionQueueGuarantees with `return true` at line 206
MutCheckPreemptionQueueGuarantees(w, order) ==
    LET queues == duplicateQueueSnapshots(w)
        t == w.next
        currentQueue == Obj(t, ask.queuePath)
        r == guaranteesLoop(AddAllocation(queues, currentQueue, ask.allocatedResource),
                            t, currentQueue, order, 1)
    IN  IF currentQueue \notin DOMAIN queues.snaps THEN [ok |-> FALSE, w |-> Release(queues, t)]
        ELSE [ok |-> TRUE, w |-> Release(r.w, t)]

checkPreemptionQueueGuarantees(w, order) ==
    LET queues == duplicateQueueSnapshots(w)
        t == w.next
        currentQueue == Obj(t, ask.queuePath)
        r == guaranteesLoop(AddAllocation(queues, currentQueue, ask.allocatedResource),
                            t, currentQueue, order, 1)
    IN  IF currentQueue \notin DOMAIN queues.snaps THEN [ok |-> FALSE, w |-> Release(queues, t)]
        ELSE [ok |-> r.ok, w |-> Release(r.w, t)]

(***************************************************************************)
(* Predicate coordinator (checkPreemptionPredicates)                       *)
(***************************************************************************)
preemptCheckConcurrency == 10

NodeOrder == <<"n1", "n2">>

NodeIDs == Range(NodeOrder)

\* the node ids of the largest cluster looked at, in the order of the strings
NodeNames == <<"n1", "n2", "n3", "n4", "n5", "n6", "n7", "n8", "n9", "na", "nb">>

\* NodeID < NodeID of the strings
NodeRank(n) == CHOOSE i \in 1..Len(NodeNames) : NodeNames[i] = n

checkLess(a, b) ==
    IF a.StartIndex = b.StartIndex THEN NodeRank(a.NodeID) < NodeRank(b.NodeID)
    ELSE a.StartIndex < b.StartIndex

RECURSIVE InsertCheck(_, _)
InsertCheck(x, sorted) ==
    IF sorted = <<>> THEN <<x>>
    ELSE IF checkLess(x, Head(sorted)) THEN <<x>> \o sorted
    ELSE <<Head(sorted)>> \o InsertCheck(x, Tail(sorted))

RECURSIVE SortChecks(_)
SortChecks(list) ==
    IF list = <<>> THEN <<>>
    ELSE InsertCheck(list[Len(list)], SortChecks(SubSeq(list, 1, Len(list) - 1)))

NoResult ==
    [nil |-> TRUE, nodeID |-> "", success |-> FALSE, index |-> 0 - 1, victims |-> <<>>]

\* no call of checkPreemptionPredicates under way: pc is where the
\* coordinator stands, sorted the descriptors after the sort, b the batch of
\* the loop of line 396, spawned the tasks of the batch started, running the
\* nodes whose task has its call to the shim outstanding, ch the results in
\* the channel, cap its capacity, wg the counter of the WaitGroup, closer
\* where the goroutine of lines 407-410 stands, closed whether ch is closed,
\* expected and received the counts of lines 399 and 411, got the nodes
\* whose result was received, bestResult and result as in the code, ends the
\* best result at the end of each batch, panic a send on a closed channel
NoBatches ==
    [pc |-> "idle", sorted |-> <<>>, victimsByNode |-> <<>>, b |-> 0, spawned |-> 0,
     running |-> {}, ch |-> {}, cap |-> 0, wg |-> 0, closer |-> "none", closed |-> FALSE,
     expected |-> 0, received |-> 0, got |-> {}, bestResult |-> NoResult,
     result |-> NoResult, ends |-> <<>>, panic |-> FALSE]

\* predicateCheckResult.populateVictims
populateVictims(pcr, victimsByNode) ==
    IF pcr.nil \/ ~pcr.success THEN [pcr EXCEPT !.victims = <<>>]
    ELSE IF pcr.nodeID \notin DOMAIN victimsByNode
            \/ pcr.index >= Len(victimsByNode[pcr.nodeID])
    THEN [pcr EXCEPT !.victims = <<>>, !.success = FALSE, !.index = 0 - 1]
    ELSE [pcr EXCEPT !.victims = SubSeq(victimsByNode[pcr.nodeID], 1, pcr.index + 1)]

RECURSIVE flagScore(_, _)
flagScore(list, n) ==
    IF n = 0 THEN [originator |-> FALSE, noPreempt |-> FALSE]
    ELSE LET rest == flagScore(list, n - 1)
         IN  [originator |-> rest.originator \/ allocs[list[n]].originator,
              noPreempt |-> rest.noPreempt \/ ~allocs[list[n]].allowPreemptSelf]

\* predicateCheckResult.getSolutionScore
getSolutionScore(pcr, allocationsByNode) ==
    IF pcr.nil \/ ~pcr.success THEN scoreUnfit
    ELSE IF pcr.nodeID \notin DOMAIN allocationsByNode THEN scoreUnfit
    ELSE IF pcr.index < 0 THEN 0
    ELSE IF pcr.index >= Len(allocationsByNode[pcr.nodeID]) THEN scoreUnfit
    ELSE LET f == flagScore(allocationsByNode[pcr.nodeID], pcr.index + 1)
         IN  (IF f.originator THEN scoreOriginator ELSE 0)
             + (IF f.noPreempt THEN scoreNoPreempt ELSE 0)
             + pcr.index + 1

betterThan(pcr, other, allocationsByNode) ==
    getSolutionScore(pcr, allocationsByNode) < getSolutionScore(other, allocationsByNode)

isSatisfactory(pcr, allocationsByNode) ==
    getSolutionScore(pcr, allocationsByNode) < scoreFitMax

\* preemptPredicateCheck: the answer of the shim for one descriptor
preemptPredicateCheck(args) ==
    LET answer == env.oracle[args.NodeID]
    IN  [nil |-> FALSE,
         nodeID |-> args.NodeID,
         success |-> answer # "reject",
         index |-> IF answer = "reject" \/ Len(args.PreemptAllocationKeys) = 0 THEN 0 - 1
                   ELSE IF answer = "more" THEN Len(args.PreemptAllocationKeys) - 1
                   ELSE args.StartIndex,
         victims |-> <<>>]

\* batchPreemptionChecks
RECURSIVE batchPreemptionChecks(_, _)
batchPreemptionChecks(checks, batchSize) ==
    IF checks = <<>> THEN <<>>
    ELSE LET end == Min(batchSize, Len(checks))
         IN  <<SubSeq(checks, 1, end)>>
             \o batchPreemptionChecks(SubSeq(checks, end + 1, Len(checks)), batchSize)

\* the receive loop of one batch (lines 411-420); the results arrive in the
\* order given
RECURSIVE receiveResults(_, _, _, _)
receiveResults(bestResult, results, i, allocationsByNode) ==
    IF i > Len(results) THEN bestResult
    ELSE LET result == results[i]
             best == IF ~result.success THEN bestResult
                     ELSE IF bestResult.nil THEN result
                     ELSE IF betterThan(result, bestResult, allocationsByNode) THEN result
                     ELSE bestResult
         IN  receiveResults(best, results, i + 1, allocationsByNode)

\* the descriptors of a batch in the order their results reach the channel:
\* arrival lists the node ids, earliest first
arrivalOrder(batch, arrival) ==
    Concat([i \in 1..Len(arrival) |->
               Filter(batch, {c \in Range(batch) : c.NodeID = arrival[i]})])

RECURSIVE batchLoop(_, _, _, _, _)
\* the loop over the batches leaving after its first batch, whatever the
\* best result
MutBatchLoop(bestResult, batches, b, arrival, allocationsByNode) ==
    IF b > Len(batches) THEN bestResult
    ELSE LET sent == arrivalOrder(batches[b], arrival)
             results == [i \in 1..Len(sent) |-> preemptPredicateCheck(sent[i])]
         IN  receiveResults(bestResult, results, 1, allocationsByNode)

batchLoop(bestResult, batches, b, arrival, allocationsByNode) ==
    IF b > Len(batches) THEN bestResult
    ELSE LET sent == arrivalOrder(batches[b], arrival)
             results == [i \in 1..Len(sent) |-> preemptPredicateCheck(sent[i])]
             best == receiveResults(bestResult, results, 1, allocationsByNode)
         IN  IF isSatisfactory(best, allocationsByNode) THEN best
             ELSE batchLoop(best, batches, b + 1, arrival, allocationsByNode)

\* checkPreemptionPredicates without the sort of lines 366-372
MutUnsortedChecks(predicateChecks, victimsByNode, ps, arrival) ==
    IF Len(predicateChecks) = 0 THEN NoResult
    ELSE LET sorted == predicateChecks
             check == sorted[1]
         IN  IF ~env.plugin
             THEN populateVictims([nil |-> FALSE, nodeID |-> check.NodeID, success |-> TRUE,
                                   index |-> check.StartIndex, victims |-> <<>>],
                                  victimsByNode)
             ELSE populateVictims(
                      batchLoop(NoResult, batchPreemptionChecks(sorted, preemptCheckConcurrency),
                                1, arrival, ps.allocationsByNode),
                      victimsByNode)

\* checkPreemptionPredicates without the test of line 376: the result for
\* the first descriptor is made up whether a plugin is registered or not
MutCheckPreemptionPredicates(predicateChecks, victimsByNode, ps, arrival) ==
    IF Len(predicateChecks) = 0 THEN NoResult
    ELSE LET sorted == SortChecks(predicateChecks)
             check == sorted[1]
         IN  populateVictims([nil |-> FALSE, nodeID |-> check.NodeID, success |-> TRUE,
                              index |-> check.StartIndex, victims |-> <<>>],
                             victimsByNode)

checkPreemptionPredicates(predicateChecks, victimsByNode, ps, arrival) ==
    IF Len(predicateChecks) = 0 THEN NoResult
    ELSE LET sorted == SortChecks(predicateChecks)
             check == sorted[1]
         IN  IF ~env.plugin
             THEN populateVictims([nil |-> FALSE, nodeID |-> check.NodeID, success |-> TRUE,
                                   index |-> check.StartIndex, victims |-> <<>>],
                                  victimsByNode)
             ELSE populateVictims(
                      batchLoop(NoResult, batchPreemptionChecks(sorted, preemptCheckConcurrency),
                                1, arrival, ps.allocationsByNode),
                      victimsByNode)

(***************************************************************************)
(* Additional victims (calculateAdditionalVictims)                         *)
(***************************************************************************)
\* lines 444-451: the victims chosen for the node leave their queues
RECURSIVE removeNodeVictims(_, _, _, _, _)
removeNodeVictims(st, ps, t, nodeVictims, i) ==
    IF i > Len(nodeVictims) THEN st
    ELSE LET key == nodeVictims[i]
             known == /\ key \in DOMAIN ps.queueByAlloc
                      /\ Obj(t, ps.queueByAlloc[key]) \in DOMAIN st.w.snaps
             next == IF ~known THEN st
                     ELSE [w |-> RemoveAllocation(st.w, Obj(t, ps.queueByAlloc[key]),
                                                  allocs[key].allocatedResource),
                           seen |-> st.seen \cup {key}]
         IN  removeNodeVictims(next, ps, t, nodeVictims, i + 1)

\* one iteration of the loop of lines 470-510
extraStep(st, ps, t, askQueue, key) ==
    IF key \notin DOMAIN ps.queueByAlloc
       \/ Obj(t, ps.queueByAlloc[key]) \notin DOMAIN st.w.snaps
    THEN st
    ELSE LET queueSnapshot == Obj(t, ps.queueByAlloc[key])
             res == allocs[key].allocatedResource
             oldRemaining == GetRemainingGuaranteedResource(st.w, queueSnapshot)
             w1 == RemoveAllocation(st.w, queueSnapshot, res)
             preemptableResource == GetPreemptableResource(w1, queueSnapshot)
             askQueueRemainingAfterVictimRemoval == GetRemainingGuaranteedResource(w1, askQueue)
             w2 == AddAllocation(w1, askQueue, res)
             askQueueNewRemaining == GetRemainingGuaranteedResource(w2, askQueue)
             undone == AddAllocation(RemoveAllocation(w2, askQueue, res), queueSnapshot, res)
         IN  IF ~VictimAllowed(preemptableResource, oldRemaining)
             THEN [st EXCEPT !.w = AddAllocation(w1, queueSnapshot, res)]
             ELSE IF askQueueNewRemaining # NilRes
                     /\ StrictlyGreaterThan(Zero, askQueueNewRemaining)
             THEN [st EXCEPT !.w = undone, !.stop = TRUE]
             ELSE IF ~EqualsOrEmpty(askQueueRemainingAfterVictimRemoval, askQueueNewRemaining)
             THEN [st EXCEPT !.w = w2,
                             !.victims = Append(@, key),
                             !.log = Append(@, Accepted("extra", w1, queueSnapshot, key))]
             ELSE [st EXCEPT !.w = undone]

RECURSIVE extraLoop(_, _, _, _, _, _)
extraLoop(st, ps, t, askQueue, potentialVictims, i) ==
    IF i > Len(potentialVictims) \/ st.stop THEN st
    ELSE extraLoop(extraStep(st, ps, t, askQueue, potentialVictims[i]),
                   ps, t, askQueue, potentialVictims, i + 1)

\* lines 454-466 without the test of `seen` at line 457
MutBuildPotentialVictims(w, seen, order) ==
    SortStable(VictimsInOrder(w, order), TRUE)

\* lines 454-466: the potential victims of every queue but the ones seen,
\* appended in the iteration order of allocationsByQueue and sorted
buildPotentialVictims(w, seen, order) ==
    SortStable(Filter(VictimsInOrder(w, order), Range(VictimsInOrder(w, order)) \ seen), TRUE)

\* calculateAdditionalVictims taking a nil remaining guarantee of the ask
\* queue for enough at line 513
MutCalculateAdditionalVictims(w, ps, nodeVictims, order) ==
    LET t == w.next
        askQueue == Obj(t, ask.queuePath)
        outcome(done, finalRemainingRes) ==
            IF finalRemainingRes = NilRes
               \/ StrictlyGreaterThanOrEquals(finalRemainingRes, Zero)
            THEN [ok |-> TRUE, victims |-> done.victims, w |-> Release(done.w, t),
                  log |-> done.log]
            ELSE [ok |-> FALSE, victims |-> <<>>, w |-> Release(done.w, t), log |-> done.log]
        finish(done) == outcome(done, GetRemainingGuaranteedResource(done.w, askQueue))
        others(removed) ==
            finish(extraLoop([w |-> removed.w, victims |-> <<>>, stop |-> FALSE,
                              log |-> <<>>],
                             ps, t, askQueue,
                             buildPotentialVictims(w, removed.seen, order), 1))
        begin(wa) ==
            IF askQueue \notin DOMAIN wa.snaps
            THEN [ok |-> FALSE, victims |-> <<>>, w |-> Release(wa, t), log |-> <<>>]
            ELSE others(removeNodeVictims([w |-> wa, seen |-> {}], ps, t, nodeVictims, 1))
    IN  begin(duplicateQueueSnapshots(w))

\* calculateAdditionalVictims: [ok, victims, w, log]; order is the iteration
\* order of allocationsByQueue in the loop of lines 455-463
calculateAdditionalVictims(w, ps, nodeVictims, order) ==
    LET t == w.next
        askQueue == Obj(t, ask.queuePath)
        \* lines 511-516: the ask queue after the loop
        outcome(done, finalRemainingRes) ==
            IF finalRemainingRes # NilRes
               /\ StrictlyGreaterThanOrEquals(finalRemainingRes, Zero)
            THEN [ok |-> TRUE, victims |-> done.victims, w |-> Release(done.w, t),
                  log |-> done.log]
            ELSE [ok |-> FALSE, victims |-> <<>>, w |-> Release(done.w, t), log |-> done.log]
        finish(done) == outcome(done, GetRemainingGuaranteedResource(done.w, askQueue))
        \* lines 453-510: the other victims, sorted and tried in turn
        others(removed) ==
            finish(extraLoop([w |-> removed.w, victims |-> <<>>, stop |-> FALSE,
                              log |-> <<>>],
                             ps, t, askQueue,
                             buildPotentialVictims(w, removed.seen, order), 1))
        \* lines 435-451 on the copy wa
        begin(wa) ==
            IF askQueue \notin DOMAIN wa.snaps
            THEN [ok |-> FALSE, victims |-> <<>>, w |-> Release(wa, t), log |-> <<>>]
            ELSE others(removeNodeVictims([w |-> wa, seen |-> {}], ps, t, nodeVictims, 1))
    IN  begin(duplicateQueueSnapshots(w))

(***************************************************************************)
(* tryNodes                                                                *)
(***************************************************************************)
\* the loop of lines 525-548 over the nodes still to visit
RECURSIVE nodesLoop(_, _, _)
nodesLoop(st, ps, todo) ==
    IF todo = {} THEN st
    ELSE LET nodeID == CHOOSE n \in todo : TRUE
             allocations == IF nodeID \in DOMAIN ps.allocationsByNode
                            THEN ps.allocationsByNode[nodeID] ELSE <<>>
             \* lines 532-547 for r, what calculateVictimsByNode returned
             next(r) ==
                 IF r.nilVictims THEN [st EXCEPT !.w = r.w]
                 ELSE [w |-> r.w,
                       victimsByNode |-> (nodeID :> r.victims) @@ st.victimsByNode,
                       logs |-> (nodeID :> r.log) @@ st.logs,
                       predicateChecks |->
                           IF Len(r.victims) > 0 \/ ~env.nodesTried
                           THEN Append(st.predicateChecks,
                                       [NodeID |-> nodeID,
                                        PreemptAllocationKeys |-> r.victims,
                                        StartIndex |-> r.index])
                           ELSE st.predicateChecks]
         IN  nodesLoop(next(calculateVictimsByNode(st.w, ps, ps.nodeAvailableMap[nodeID],
                                                   allocations)),
                       ps, todo \ {nodeID})

\* tryNodes: [ok, nodeID, victims, w, log, checks]
tryNodes(w, ps, arrival) ==
    LET log(st) == Concat([i \in 1..Len(NodeNames) |->
                              IF NodeNames[i] \in DOMAIN st.logs THEN st.logs[NodeNames[i]]
                              ELSE <<>>])
        \* lines 551-554 for the result of the predicates
        answer(st, result) ==
            IF ~result.nil /\ result.success
            THEN [ok |-> TRUE, nodeID |-> result.nodeID, victims |-> result.victims,
                  w |-> st.w, log |-> log(st), checks |-> st.predicateChecks]
            ELSE [ok |-> FALSE, nodeID |-> "", victims |-> <<>>, w |-> st.w, log |-> log(st),
                  checks |-> st.predicateChecks]
        \* line 550 for st, what the loop over the nodes left
        evaluate(st) ==
            answer(st, checkPreemptionPredicates(st.predicateChecks, st.victimsByNode,
                                                 ps, arrival))
    IN  evaluate(nodesLoop([w |-> w, victimsByNode |-> <<>>, logs |-> <<>>,
                            predicateChecks |-> <<>>],
                           ps, DOMAIN ps.nodeAvailableMap))

(***************************************************************************)
(* TryPreemption                                                           *)
(***************************************************************************)
\* the loop of lines 602-614 without the test of line 605: a victim counts
\* wherever it runs
RECURSIVE MutFilterVictims(_, _, _, _, _)
MutFilterVictims(st, victims, i, nodeID, fitIn) ==
    IF i > Len(victims) THEN st
    ELSE LET victim == allocs[victims[i]]
             next == [finalVictims |->
                          IF StrictlyGreaterThanOnlyExisting(ask.allocatedResource,
                                                             st.victimsTotalResource)
                          THEN Append(st.finalVictims, victims[i])
                          ELSE st.finalVictims,
                      victimsTotalResource |->
                          AddTo(st.victimsTotalResource, victim.allocatedResource)]
         IN  MutFilterVictims(next, victims, i + 1, nodeID, fitIn)

\* the loop of lines 602-614: [finalVictims, victimsTotalResource]
RECURSIVE filterVictims(_, _, _, _, _)
filterVictims(st, victims, i, nodeID, fitIn) ==
    IF i > Len(victims) THEN st
    ELSE LET victim == allocs[victims[i]]
             next == IF ~fitIn /\ victim.nodeID # nodeID THEN st
                     ELSE [finalVictims |->
                               IF StrictlyGreaterThanOnlyExisting(ask.allocatedResource,
                                                                  st.victimsTotalResource)
                               THEN Append(st.finalVictims, victims[i])
                               ELSE st.finalVictims,
                           victimsTotalResource |->
                               AddTo(st.victimsTotalResource, victim.allocatedResource)]
         IN  filterVictims(next, victims, i + 1, nodeID, fitIn)

\* Queue.FindQueueByAppID: the path of the live queue an application runs in
\* FindQueueByAppID answering with the queue of the ask
MutFindQueueByAppID(applicationID) == ask.queuePath

FindQueueByAppID(applicationID) ==
    LET key == CHOOSE k \in DOMAIN allocs : allocs[k].applicationID = applicationID
    IN  allocs[key].queuePath

\* Queue.IncPreemptingResource on the live queue at path
IncPreemptingResource(lq, path, res) == [lq EXCEPT ![path] = Add(@, res)]

\* the loop of lines 623-644 without victim.MarkPreempted()
RECURSIVE MutPreemptVictims(_, _, _)
MutPreemptVictims(st, finalVictims, i) ==
    IF i > Len(finalVictims) THEN st
    ELSE LET key == finalVictims[i]
             victimQueue == FindQueueByAppID(allocs[key].applicationID)
             next == IF victimQueue \in DOMAIN st.live
                     THEN [st EXCEPT !.live = IncPreemptingResource(st.live, victimQueue,
                                                                    allocs[key].allocatedResource)]
                     ELSE st
         IN  MutPreemptVictims(next, finalVictims, i + 1)

\* the loop of lines 623-644: [live, allocs] after the victims are preempted
RECURSIVE preemptVictims(_, _, _)
preemptVictims(st, finalVictims, i) ==
    IF i > Len(finalVictims) THEN st
    ELSE LET key == finalVictims[i]
             victimQueue == FindQueueByAppID(allocs[key].applicationID)
             next == IF victimQueue \in DOMAIN st.live
                     THEN [live |-> IncPreemptingResource(st.live, victimQueue,
                                                          allocs[key].allocatedResource),
                           allocs |-> [st.allocs EXCEPT ![key].preempted = TRUE]]
                     ELSE st
         IN  preemptVictims(next, finalVictims, i + 1)

\* what TryPreemption hands back when it gives up: pp and ww are the work
\* structures and the heap it leaves, log the victims its simulations accepted
failure(code, pp, ww, log) ==
    [ok |-> FALSE, code |-> code, nodeID |-> "", finalVictims |-> <<>>,
     victims |-> <<>>, fitIn |-> FALSE, ps |-> pp, w |-> ww, log |-> log]

\* lines 574-620 without the shortfall check of lines 616-620
MutSelectVictims(ps, tn, ex) ==
    LET victims == tn.victims \o ex.victims
        fitIn == FitIn(ps.nodeAvailableMap[tn.nodeID], ask.allocatedResource)
        f == filterVictims([finalVictims |-> <<>>, victimsTotalResource |-> NewResource],
                           victims, 1, tn.nodeID, fitIn)
    IN  IF ~ex.ok THEN failure("", ps, ex.w, tn.log \o ex.log)
        ELSE IF Len(victims) = 0 THEN failure("", ps, ex.w, tn.log \o ex.log)
        ELSE [ok |-> TRUE, code |-> "", nodeID |-> tn.nodeID, finalVictims |-> f.finalVictims,
              victims |-> victims, fitIn |-> fitIn, ps |-> ps, w |-> ex.w,
              log |-> tn.log \o ex.log]

\* lines 574-620: the victims of the node and the additional ones are merged,
\* filtered and checked against the ask; tn is what tryNodes returned, ex what
\* calculateAdditionalVictims returned
selectVictims(ps, tn, ex) ==
    LET victims == tn.victims \o ex.victims
        fitIn == FitIn(ps.nodeAvailableMap[tn.nodeID], ask.allocatedResource)
        f == filterVictims([finalVictims |-> <<>>, victimsTotalResource |-> NewResource],
                           victims, 1, tn.nodeID, fitIn)
    IN  IF ~ex.ok THEN failure("", ps, ex.w, tn.log \o ex.log)
        ELSE IF Len(victims) = 0 THEN failure("", ps, ex.w, tn.log \o ex.log)
        ELSE IF StrictlyGreaterThanOnlyExisting(ask.allocatedResource, f.victimsTotalResource)
        THEN failure("PreemptionShortfall", ps, ex.w, tn.log \o ex.log)
        ELSE [ok |-> TRUE, code |-> "", nodeID |-> tn.nodeID, finalVictims |-> f.finalVictims,
              victims |-> victims, fitIn |-> fitIn, ps |-> ps, w |-> ex.w,
              log |-> tn.log \o ex.log]

(***************************************************************************)
(* Precondition gate (CheckPreconditions)                                  *)
(***************************************************************************)
preemptAttemptFrequency == 15

\* CheckPreconditions without the test of lines 116-118
MutCheckPreconditions(t) ==
    /\ ask.allowPreemptOther
    /\ ~ask.hasTriggeredPreemption
    /\ ask.requiredNode = ""
    /\ ~(t < ask.createTime + env.preemptionDelay)

\* CheckPreconditions without the test of lines 106-108
MutCheckRequiredNode(t) ==
    /\ ask.allowPreemptOther
    /\ ~ask.hasTriggeredPreemption
    /\ ~(t < ask.createTime + env.preemptionDelay)
    /\ ~(t < ask.preemptCheckTime + preemptAttemptFrequency)

\* what CheckPreconditions returns when time.Now() reads t
checkPreconditions(t) ==
    /\ ask.allowPreemptOther
    /\ ~ask.hasTriggeredPreemption
    /\ ask.requiredNode = ""
    /\ ~(t < ask.createTime + env.preemptionDelay)
    /\ ~(t < ask.preemptCheckTime + preemptAttemptFrequency)

(***************************************************************************)
(* The inputs                                                              *)
(***************************************************************************)
MaxQty == 2

Root == <<"root">>

QA == <<"root", ".a">>

QB == <<"root", ".b">>

QC == <<"root", ".c">>

Paths == {Root, QA, QB, QC}

ParentPath(path) == IF path = Root THEN <<"nil">> ELSE Root

AllocKeys == {"v1", "v2"}

KeyOrder == <<"v1", "v2", "v3", "v4", "v5", "v6", "v7", "v8", "v9", "va", "vb">>

Vcore(n) == [k \in {"vcore"} |-> n]

Both(n, m) == [k \in ResTypes |-> IF k = "vcore" THEN n ELSE m]

RECURSIVE SumRes(_, _)
SumRes(keys, al) ==
    IF keys = {} THEN NewResource
    ELSE LET k == CHOOSE x \in keys : TRUE
         IN  Add(al[k].allocatedResource, SumRes(keys \ {k}, al))

\* the snapshots Queue.FindEligiblePreemptionVictims hands to the preemptor:
\* one per queue, the usage of a leaf being what its potential victims hold
\* plus base[leaf], the usage of the root the sum of the leaves
Snapshots(guaranteed, base, al) ==
    LET victimsOf(path) == Filter(KeyOrder, {k \in DOMAIN al : al[k].queuePath = path})
        leafUsage(path) == Add(base[path], SumRes(Range(victimsOf(path)), al))
        usage(path) == IF path = Root
                       THEN Add(Add(leafUsage(QA), leafUsage(QB)), leafUsage(QC))
                       ELSE leafUsage(path)
        value(path, f) == CASE f = "AllocatedResource" -> usage(path)
                            [] f = "PreemptingResource" -> NewResource
                            [] f = "MaxResource" -> NilRes
                            [] f = "GuaranteedResource" -> guaranteed[path]
    IN  [snaps |-> [o \in {Obj(OrigTree, path) : path \in Paths} |->
                      [Parent |-> IF PathOf(o) = Root THEN NilSnap
                                  ELSE Obj(OrigTree, ParentPath(PathOf(o))),
                       QueuePath |-> PathOf(o),
                       Leaf |-> PathOf(o) # Root,
                       AllocatedResource |-> Cell(OrigTree, PathOf(o), "AllocatedResource"),
                       PreemptingResource |-> Cell(OrigTree, PathOf(o), "PreemptingResource"),
                       MaxResource |-> Cell(OrigTree, PathOf(o), "MaxResource"),
                       GuaranteedResource |-> Cell(OrigTree, PathOf(o), "GuaranteedResource"),
                       PotentialVictims |-> victimsOf(PathOf(o)),
                       AskQueue |-> Obj(OrigTree, QA)]],
         cells |-> [c \in {Cell(OrigTree, path, f) : path \in Paths, f \in ResFields} |->
                      value(c[2], c[3])],
         next |-> 1]

\* the sequences that list every element of S once
Perms(S) ==
    {s \in [1..Cardinality(S) -> S] : \A i, j \in 1..Cardinality(S) : s[i] = s[j] => i = j}

\* the iteration orders of a snapshot map that can be told apart: the orders
\* of the queues that hold potential victims
QueueOrders ==
    Perms({path \in PathsOf(world, OrigTree) :
              world.snaps[Obj(OrigTree, path)].PotentialVictims # <<>>})

\* the orders in which the results of a batch can reach the channel (for a
\* cluster of more than two nodes: in the order of the node ids and against it)
Arrivals ==
    IF ~env.plugin THEN {NodeOrder}
    ELSE IF DOMAIN nodes \subseteq NodeIDs THEN Perms(NodeIDs)
    ELSE {NodeNames, [i \in 1..Len(NodeNames) |-> NodeNames[Len(NodeNames) + 1 - i]]}

\* the zero time.Time of an ask never checked lies further back than the
\* attempt frequency
NeverChecked == 0 - preemptAttemptFrequency

AskKey == "ask"

NoCall ==
    [op |-> "none", ok |-> FALSE, code |-> "", nodeID |-> "", finalVictims |-> <<>>,
     victims |-> <<>>, fitIn |-> FALSE, log |-> <<>>, precheck |-> FALSE, at |-> 0,
     tree |-> 0, obj |-> NilSnap, res |-> NilRes, index |-> 0 - 1, order |-> <<>>]

Vcores == {Vcore(q) : q \in 1..MaxQty}

AskResources == Vcores \cup {Both(1, 1)}

VictimResources == Vcores \cup {Both(1, 1)}

\* the guaranteed resources of root, root.a and root.b (root.c has none)
GuaranteeProfiles ==
    {[root |-> NilRes, a |-> Vcore(MaxQty), b |-> Vcore(MaxQty)],
     [root |-> NilRes, a |-> Vcore(MaxQty), b |-> NilRes],
     [root |-> Vcore(MaxQty + 1), a |-> NilRes, b |-> NilRes],
     [root |-> NilRes, a |-> Vcore(1), b |-> Vcore(1)]}

\* where the second potential victim runs (the first runs in root.b on n1)
Layouts ==
    {[queue |-> QB, node |-> "n1"], [queue |-> QB, node |-> "n2"],
     [queue |-> QC, node |-> "n1"], [queue |-> QC, node |-> "n2"]}

Oracle(a1, a2) == [n \in NodeIDs |-> IF n = "n1" THEN a1 ELSE a2]

\* the surroundings of an attempt: the shim's predicate plugin and its
\* answers, whether scheduling tried the nodes before, what n1 has free,
\* the state of the nodes and what root.a uses
Situation(plugin, oracle, nodesTried, available, state, base) ==
    [plugin |-> plugin, oracle |-> oracle, nodesTried |-> nodesTried,
     available |-> available, state |-> state, base |-> base]

Situations ==
    {Situation(FALSE, Oracle("accept", "accept"), FALSE, NewResource, "schedulable", NewResource),
     Situation(FALSE, Oracle("accept", "accept"), FALSE, Vcore(1), "schedulable", NewResource),
     Situation(FALSE, Oracle("accept", "accept"), TRUE, Vcore(1), "schedulable", Vcore(1)),
     Situation(TRUE, Oracle("accept", "more"), FALSE, NewResource, "schedulable", NewResource),
     Situation(TRUE, Oracle("reject", "accept"), FALSE, NewResource, "schedulable", NewResource),
     Situation(TRUE, Oracle("reject", "reject"), FALSE, NewResource, "schedulable", NewResource),
     Situation(FALSE, Oracle("accept", "accept"), FALSE, NewResource, "unschedulable", NewResource)}

Allocation(key, path, nodeID, res, originator, allowPreemptSelf, createTime) ==
    [allocationKey |-> key, applicationID |-> key, queuePath |-> path, nodeID |-> nodeID,
     allocatedResource |-> res, originator |-> originator,
     allowPreemptSelf |-> allowPreemptSelf, createTime |-> createTime,
     preempted |-> FALSE]

Node(state, capacity, available) ==
    [state |-> state, capacity |-> capacity, available |-> available]

Ask(res, allowPreemptOther, requiredNode, createTime, preemptCheckTime) ==
    [allocationKey |-> AskKey, queuePath |-> QA, allocatedResource |-> res,
     allowPreemptOther |-> allowPreemptOther, requiredNode |-> requiredNode,
     createTime |-> createTime, preemptCheckTime |-> preemptCheckTime,
     hasTriggeredPreemption |-> FALSE]

\* the state a preemptor made by NewPreemptor finds: v1 holds r1 and v2
\* holds r2
Scenario(theAsk, preemptionDelay, r1, r2, layout, g, sit) ==
    LET al == [k \in AllocKeys |->
                  IF k = "v1" THEN Allocation(k, QB, "n1", r1, FALSE, TRUE, 1)
                  ELSE Allocation(k, layout.queue, layout.node, r2, FALSE, TRUE, 1)]
        guaranteed == [path \in Paths |->
                          CASE path = Root -> g.root
                            [] path = QA -> g.a
                            [] path = QB -> g.b
                            [] OTHER -> NilRes]
        base == [path \in Paths |-> IF path = QA THEN sit.base ELSE NewResource]
        capacity == Both(2 * MaxQty + 1, 2 * MaxQty + 1)
    IN  /\ allocs = al
        /\ world = Snapshots(guaranteed, base, al)
        /\ nodes = [n \in NodeIDs |->
                       Node(sit.state, capacity,
                            IF n = "n1" THEN sit.available ELSE NewResource)]
        /\ ask = theAsk
        /\ live = [path \in Paths |-> NewResource]
        /\ env = [preemptionDelay |-> preemptionDelay, nodesTried |-> sit.nodesTried,
                  plugin |-> sit.plugin, oracle |-> sit.oracle]
        /\ released = <<>>
        /\ last = NoCall
        /\ gateLog = <<>>
        /\ calls = 0
        /\ co = NoBatches

Init ==
    /\ now = 0
    /\ p = NoWorkingState
    /\ \E askRes \in AskResources, r1 \in Vcores, r2 \in VictimResources,
          layout \in Layouts, g \in GuaranteeProfiles, sit \in Situations :
          Scenario(Ask(askRes, TRUE, "", 0, NeverChecked), 0, r1, r2, layout, g, sit)

(***************************************************************************)
(* The operations                                                          *)
(***************************************************************************)
MaxCommits == 2

\* lines 622-658 with the ask marked before the outcome is known
MutReturn(r, precheck) ==
    /\ world' = r.w
    /\ p' = r.ps
    /\ ask' = [ask EXCEPT !.hasTriggeredPreemption = TRUE]
    /\ IF r.ok
       THEN \E done \in {preemptVictims([live |-> live, allocs |-> allocs], r.finalVictims, 1)} :
               /\ live' = done.live
               /\ allocs' = done.allocs
               /\ released' = Append(released, r.finalVictims)
       ELSE UNCHANGED <<live, allocs, released>>
    /\ last' = [NoCall EXCEPT !.op = "TryPreemption", !.ok = r.ok, !.code = r.code,
                              !.nodeID = r.nodeID, !.finalVictims = r.finalVictims,
                              !.victims = r.victims, !.fitIn = r.fitIn, !.log = r.log,
                              !.precheck = precheck, !.at = now]
    /\ UNCHANGED <<nodes, env, now, gateLog, calls, co>>

\* lines 622-658 and the return of TryPreemption: r is what the attempt came
\* to, precheck what checkPreemptionQueueGuarantees answered
return(r, precheck) ==
    /\ world' = r.w
    /\ p' = r.ps
    /\ IF r.ok
       THEN \E done \in {preemptVictims([live |-> live, allocs |-> allocs], r.finalVictims, 1)} :
               /\ live' = done.live
               /\ allocs' = done.allocs
               /\ ask' = [ask EXCEPT !.hasTriggeredPreemption = TRUE]
               /\ released' = Append(released, r.finalVictims)
       ELSE UNCHANGED <<live, allocs, ask, released>>
    /\ last' = [NoCall EXCEPT !.op = "TryPreemption", !.ok = r.ok, !.code = r.code,
                              !.nodeID = r.nodeID, !.finalVictims = r.finalVictims,
                              !.victims = r.victims, !.fitIn = r.fitIn, !.log = r.log,
                              !.precheck = precheck, !.at = now]
    /\ UNCHANGED <<nodes, env, now, gateLog, calls, co>>

\* Preemptor.TryPreemption; o1, o2, o3 are the iteration orders of the three
\* loops over the snapshot map, arrival the order in which the predicate
\* results come in
TryPreemption ==
    /\ Len(released) < MaxCommits
    /\ \E o1 \in QueueOrders :
       \E g \in {checkPreemptionQueueGuarantees(world, o1)} :
          IF ~g.ok THEN return(failure("PreemptionDoesNotGuarantee", p, g.w, <<>>), FALSE)
          ELSE \E o2 \in (IF p.ready THEN {o1} ELSE QueueOrders), arrival \in Arrivals :
               \E ps \in {IF p.ready THEN p ELSE initWorkingState(g.w, o2)} :
               \E tn \in {tryNodes(g.w, ps, arrival)} :
                  IF ~tn.ok THEN return(failure("", ps, tn.w, tn.log), TRUE)
                  ELSE \E o3 \in QueueOrders :
                       \E ex \in {calculateAdditionalVictims(tn.w, ps, tn.victims, o3)} :
                          return(selectVictims(ps, tn, ex), TRUE)

Next == TryPreemption

Spec == Init /\ [][Next]_vars

(***************************************************************************)
(* The precondition gate over time                                         *)
(***************************************************************************)
MaxClock == 32

\* how far the clock moves between two calls
TickSteps == {7, 8}

\* Allocation.UpdatePreemptCheckTime, time.Now() reading t
UpdatePreemptCheckTime(t) == [ask EXCEPT !.preemptCheckTime = t]

\* Preemptor.CheckPreconditions, time.Now() reading `now`
CheckPreconditions ==
    /\ ask' = IF checkPreconditions(now) THEN UpdatePreemptCheckTime(now) ELSE ask
    /\ last' = [NoCall EXCEPT !.op = "CheckPreconditions", !.ok = checkPreconditions(now),
                              !.at = now]
    /\ gateLog' = (IF gateLog = <<>> THEN <<>> ELSE <<gateLog[Len(gateLog)]>>)
                  \o <<[at |-> now, ok |-> checkPreconditions(now)]>>
    /\ UNCHANGED <<world, allocs, nodes, live, env, now, p, released, calls, co>>

\* the clock moves on
Tick ==
    /\ \E d \in TickSteps : now + d <= MaxClock /\ now' = now + d
    /\ UNCHANGED <<world, allocs, nodes, ask, live, env, p, released, last, gateLog, calls, co>>

\* an ask as an earlier attempt may have left it, in front of the gate
GateInit ==
    /\ now = 0
    /\ p = NoWorkingState
    /\ \E allowPreemptOther \in BOOLEAN, triggered \in BOOLEAN, requiredNode \in {"", "n1"},
          createTime \in {0, 8}, preemptionDelay \in {0, preemptAttemptFrequency} :
          Scenario([Ask(Vcore(MaxQty), allowPreemptOther, requiredNode, createTime, NeverChecked)
                       EXCEPT !.hasTriggeredPreemption = triggered],
                   preemptionDelay, Vcore(MaxQty), Vcore(1),
                   [queue |-> QB, node |-> "n2"],
                   [root |-> NilRes, a |-> Vcore(MaxQty), b |-> Vcore(MaxQty)],
                   Situation(FALSE, Oracle("accept", "accept"), FALSE, NewResource,
                             "schedulable", NewResource))

GateNext == CheckPreconditions \/ Tick

GateSpec == GateInit /\ [][GateNext]_vars

\* C6: of two CheckPreconditions calls in a row for one ask, made less than
\* preemptAttemptFrequency apart, at most one returns true
C6_Throttle ==
    (Len(gateLog) = 2 /\ gateLog[2].at - gateLog[1].at < preemptAttemptFrequency) =>
        ~(gateLog[1].ok /\ gateLog[2].ok)

\* a call that passed and the next one, made later but within the frequency
\* window, that the throttle alone turned down
C6_Witness ==
    /\ Len(gateLog) = 2
    /\ gateLog[1].ok
    /\ ~gateLog[2].ok
    /\ gateLog[2].at > gateLog[1].at
    /\ gateLog[2].at - gateLog[1].at < preemptAttemptFrequency
    /\ ~(gateLog[2].at < ask.createTime + env.preemptionDelay)

\* the five conditions of the gate, on the ask as the call finds it
FiveConditions ==
    /\ ask.allowPreemptOther
    /\ ~ask.hasTriggeredPreemption
    /\ ask.requiredNode = ""
    /\ now >= ask.createTime + env.preemptionDelay
    /\ now >= ask.preemptCheckTime + preemptAttemptFrequency

\* C8: CheckPreconditions returns true exactly when the five conditions hold;
\* returning true it sets the ask's preemptCheckTime to the current time and
\* nothing else, returning false it leaves the ask as it was, so the check
\* time never goes back
C8_GateConditions ==
    [][(last'.op = "CheckPreconditions" /\ now' = now) =>
          /\ last'.ok = FiveConditions
          /\ last'.ok => ask' = [ask EXCEPT !.preemptCheckTime = now]
          /\ ~last'.ok => ask' = ask
          /\ ask'.preemptCheckTime >= ask.preemptCheckTime]_vars

\* the gate has let the ask through twice, the second time moving the check
\* time forward
C8_Witness ==
    /\ Len(gateLog) = 2
    /\ gateLog[1].ok
    /\ gateLog[2].ok
    /\ ask.preemptCheckTime = gateLog[2].at
    /\ gateLog[2].at > gateLog[1].at

(***************************************************************************)
(* The snapshot maps under AddAllocation and RemoveAllocation              *)
(***************************************************************************)
MaxTrees == 2

MaxCalls == 2

\* what the calls add and remove: a resource with a type the snapshots of the
\* scenario do not all hold
SnapResources == {Both(1, 1)}

SnapCall(op, tree, obj, res) ==
    [NoCall EXCEPT !.op = op, !.tree = tree, !.obj = obj, !.res = res]

\* the snapshots of the duplicated maps
Duplicated == {o \in DOMAIN world.snaps : TreeOf(o) # OrigTree}

\* Preemptor.duplicateQueueSnapshots, the caller keeping the map
CallDuplicateQueueSnapshots ==
    /\ world.next <= MaxTrees
    /\ world' = duplicateQueueSnapshots(world)
    /\ last' = SnapCall("duplicateQueueSnapshots", world.next, NilSnap, NilRes)
    /\ UNCHANGED <<allocs, nodes, ask, live, env, now, p, released, gateLog, calls, co>>

\* QueuePreemptionSnapshot.AddAllocation on a snapshot of a duplicated map
CallAddAllocation ==
    /\ calls < MaxCalls
    /\ \E obj \in Duplicated, res \in SnapResources :
          /\ world' = AddAllocation(world, obj, res)
          /\ last' = SnapCall("AddAllocation", TreeOf(obj), obj, res)
    /\ calls' = calls + 1
    /\ UNCHANGED <<allocs, nodes, ask, live, env, now, p, released, gateLog, co>>

\* QueuePreemptionSnapshot.RemoveAllocation on a snapshot of a duplicated map
CallRemoveAllocation ==
    /\ calls < MaxCalls
    /\ \E obj \in Duplicated, res \in SnapResources :
          /\ world' = RemoveAllocation(world, obj, res)
          /\ last' = SnapCall("RemoveAllocation", TreeOf(obj), obj, res)
    /\ calls' = calls + 1
    /\ UNCHANGED <<allocs, nodes, ask, live, env, now, p, released, gateLog, co>>

\* Preemptor.checkPreemptionQueueGuarantees, next to the maps that exist; the
\* map it duplicates is gone when it returns
CallCheckPreemptionQueueGuarantees ==
    /\ \E order \in QueueOrders :
       \E r \in {checkPreemptionQueueGuarantees(world, order)} :
          world' = r.w
    /\ UNCHANGED <<allocs, nodes, ask, live, env, now, p, released, last, gateLog, calls, co>>

\* Preemptor.calculateVictimsByNode for one node, next to the maps that exist
CallCalculateVictimsByNode ==
    /\ \E nodeID \in DOMAIN p.nodeAvailableMap :
       \E r \in {calculateVictimsByNode(world, p, p.nodeAvailableMap[nodeID],
                                        IF nodeID \in DOMAIN p.allocationsByNode
                                        THEN p.allocationsByNode[nodeID] ELSE <<>>)} :
          world' = r.w
    /\ UNCHANGED <<allocs, nodes, ask, live, env, now, p, released, last, gateLog, calls, co>>

\* Preemptor.calculateAdditionalVictims, next to the maps that exist
CallCalculateAdditionalVictims ==
    /\ \E order \in QueueOrders, nodeVictims \in {<<>>, <<"v1">>} :
       \E r \in {calculateAdditionalVictims(world, p, nodeVictims, order)} :
          world' = r.w
    /\ UNCHANGED <<allocs, nodes, ask, live, env, now, p, released, last, gateLog, calls, co>>

\* a preemptor whose work structures are built, before any map is duplicated
SnapInit ==
    /\ now = 0
    /\ Scenario(Ask(Vcore(MaxQty), TRUE, "", 0, NeverChecked), 0, Vcore(MaxQty), Both(1, 1),
                [queue |-> QC, node |-> "n1"],
                [root |-> NilRes, a |-> Vcore(MaxQty), b |-> Vcore(1)],
                Situation(FALSE, Oracle("accept", "accept"), FALSE, NewResource,
                          "schedulable", NewResource))
    /\ \E order \in QueueOrders : p = initWorkingState(world, order)

SnapNext ==
    \/ CallDuplicateQueueSnapshots
    \/ CallAddAllocation
    \/ CallRemoveAllocation
    \/ CallCheckPreemptionQueueGuarantees
    \/ CallCalculateVictimsByNode
    \/ CallCalculateAdditionalVictims

SnapSpec == SnapInit /\ [][SnapNext]_vars

\* the resource fields of a snapshot, read through its pointers
Fields(w, obj) == [f \in ResFields |-> Field(w, obj, f)]

\* C9: a call of AddAllocation or RemoveAllocation on a snapshot of one
\* duplicated map, and every call of duplicateQueueSnapshots,
\* checkPreemptionQueueGuarantees, calculateVictimsByNode and
\* calculateAdditionalVictims, leaves every field of every snapshot of
\* allocationsByQueue and of every other duplicated map as it was
C9_SnapshotIndependence ==
    [][\A o \in DOMAIN world.snaps :
          (calls' # calls => TreeOf(o) # last'.tree) =>
              /\ o \in DOMAIN world'.snaps
              /\ world'.snaps[o] = world.snaps[o]
              /\ Fields(world', o) = Fields(world, o)]_vars

\* two duplicated maps, one of them changed by a call, the other and the
\* original still what the original was
C9_Witness ==
    /\ world.next = 3
    /\ last.op \in {"AddAllocation", "RemoveAllocation"}
    /\ \A path \in Paths :
          Fields(world, Obj(OrigTree, path)) = Fields(world, Obj(3 - last.tree, path))
    /\ Fields(world, Obj(last.tree, Root)) # Fields(world, Obj(OrigTree, Root))

\* a snapshot and its ancestors up to the root
RECURSIVE PathToRoot(_, _)
PathToRoot(w, obj) ==
    IF obj = NilSnap THEN {} ELSE {obj} \cup PathToRoot(w, w.snaps[obj].Parent)

Sub(left, right) ==
    [k \in DOMAIN left \cup DOMAIN right |-> Val(left, k) - Val(right, k)]

Allocated(w, obj) == Field(w, obj, "AllocatedResource")

\* every snapshot of w2 is allocated in w1 what it is allocated in w2
SameAllocated(w1, w2) ==
    \A o \in DOMAIN w2.snaps : Equals(Allocated(w1, o), Allocated(w2, o))

\* what a call with res on obj has to leave behind: delta on the snapshot
\* and each of its ancestors, nothing else touched
Propagated(obj, delta(_)) ==
    \A o \in DOMAIN world.snaps :
       /\ world'.snaps[o] = world.snaps[o]
       /\ \A f \in ResFields \ {"AllocatedResource"} : Field(world', o, f) = Field(world, o, f)
       /\ Allocated(world', o) = IF o \in PathToRoot(world, obj) THEN delta(Allocated(world, o))
                                 ELSE Allocated(world, o)

\* C10: AddAllocation(r) adds r to what the snapshot and each of its
\* ancestors up to the root are allocated and changes nothing else,
\* RemoveAllocation(r) takes r off the same snapshots and changes nothing
\* else, and one after the other, in either order, leaves every snapshot
\* allocated what it was
C10_AncestorPropagation ==
    [][/\ (last'.op = "AddAllocation" /\ calls' # calls) =>
              /\ LET plus(x) == Add(x, last'.res) IN Propagated(last'.obj, plus)
              /\ SameAllocated(RemoveAllocation(world', last'.obj, last'.res), world)
       /\ (last'.op = "RemoveAllocation" /\ calls' # calls) =>
              /\ LET minus(x) == Sub(x, last'.res) IN Propagated(last'.obj, minus)
              /\ SameAllocated(AddAllocation(world', last'.obj, last'.res), world)
      ]_vars

\* a leaf of a duplicated map has been added to, and the root of that map
\* with it
C10_Witness ==
    /\ last.op = "AddAllocation"
    /\ world.snaps[last.obj].Leaf
    /\ Allocated(world, Obj(last.tree, Root))
          = Add(Allocated(world, Obj(OrigTree, Root)), last.res)
    /\ calls = 1

(***************************************************************************)
(* Properties of TryPreemption                                             *)
(***************************************************************************)
\* the sum of what the allocations of a list hold, an allocation listed twice
\* counted twice
RECURSIVE SumVictims(_, _)
SumVictims(list, al) ==
    IF list = <<>> THEN NewResource
    ELSE Add(al[Head(list)].allocatedResource, SumVictims(Tail(list), al))

Succeeded == last.op = "TryPreemption" /\ last.ok

Failed == last.op = "TryPreemption" /\ ~last.ok

\* C1: when TryPreemption succeeds, the final victims together hold at least
\* the ask on every resource type of the ask, and when the chosen node could
\* not take the ask as it was, every final victim runs on that node
C1_ShortfallGuard ==
    Succeeded =>
        /\ \A k \in DOMAIN ask.allocatedResource :
              Val(SumVictims(last.finalVictims, allocs), k) >= ask.allocatedResource[k]
        /\ ~FitIn(nodes[last.nodeID].available, ask.allocatedResource) =>
              \A i \in 1..Len(last.finalVictims) :
                 allocs[last.finalVictims[i]].nodeID = last.nodeID

\* a success on a node that was short, where a victim found on another node
\* was left out of the final list
C1_Witness ==
    /\ Succeeded
    /\ ~FitIn(nodes[last.nodeID].available, ask.allocatedResource)
    /\ last.finalVictims # <<>>
    /\ \E i \in 1..Len(last.victims) : allocs[last.victims[i]].nodeID # last.nodeID

\* C2: every victim accepted by the second pass of calculateVictimsByNode or
\* by calculateAdditionalVictims leaves its queue, right after the removal,
\* using no less than its effective guarantee in every guaranteed type
C2_NoQueueBelowGuarantee ==
    \A i \in 1..Len(last.log) :
       \A k \in DOMAIN OrZero(last.log[i].guaranteed) :
          Val(OrZero(last.log[i].used), k) >= last.log[i].guaranteed[k]

\* the ask queue's remaining guarantee once the ask is added to a fresh copy
\* of the snapshots and the final victims are removed from their queues
RECURSIVE RemoveVictims(_, _, _)
RemoveVictims(w, t, list) ==
    IF list = <<>> THEN w
    ELSE RemoveVictims(RemoveAllocation(w, Obj(t, allocs[Head(list)].queuePath),
                                        allocs[Head(list)].allocatedResource),
                       t, Tail(list))

RemainingAfterFinalVictims ==
    LET copy == duplicateQueueSnapshots(world)
        askQueue == Obj(world.next, ask.queuePath)
        added == AddAllocation(copy, askQueue, ask.allocatedResource)
    IN  GetRemainingGuaranteedResource(RemoveVictims(added, world.next, last.finalVictims),
                                       askQueue)

\* C3: when the precheck answered true and TryPreemption succeeds, the ask
\* queue keeps a remaining guarantee without a negative component once the
\* ask is added and the final victims are removed
C3_FeasibilityMonotone ==
    (Succeeded /\ last.precheck) =>
        StrictlyGreaterThanOrEquals(OrZero(RemainingAfterFinalVictims), Zero)

\* a success after a true precheck with victims, in a tree where the ask
\* queue has a remaining guarantee to speak of
C3_Witness ==
    /\ Succeeded
    /\ last.precheck
    /\ last.finalVictims # <<>>
    /\ RemainingAfterFinalVictims # NilRes
    /\ Len(last.victims) > Len(last.finalVictims)

\* C4: a TryPreemption that returns (nil, false) leaves the preempting
\* resource of every live queue, the preempted mark of every allocation, the
\* ask's flags and the release notifications as they were
C4_FailureChangesNothing ==
    [][(last'.op = "TryPreemption" /\ ~last'.ok) =>
          /\ live' = live
          /\ allocs' = allocs
          /\ ask' = ask
          /\ released' = released]_vars

\* a failure at the last check before the commit: victims were chosen but
\* they fall short of the ask
C4_Witness ==
    /\ Failed
    /\ last.code = "PreemptionShortfall"
    /\ last.log # <<>>
    /\ released = <<>>
    /\ ~ask.hasTriggeredPreemption

\* the victims of list that run in the queue at path
InQueue(list, path, al) == Filter(list, {k \in DOMAIN al : al[k].queuePath = path})

C7_IdempotentOnCommit ==
    [][(ask.hasTriggeredPreemption /\ last'.op = "TryPreemption") =>
          /\ ~last'.ok
          /\ live' = live
          /\ allocs' = allocs
          /\ released' = released]_vars

(***************************************************************************)
(* The getters of a snapshot, on snapshots changed by AddAllocation and    *)
(* RemoveAllocation                                                        *)
(***************************************************************************)
\* guarantees on the root and on the ask queue at once, next to the others
QueryProfiles ==
    GuaranteeProfiles \cup {[root |-> Vcore(MaxQty + 1), a |-> Vcore(1), b |-> NilRes]}

\* QueuePreemptionSnapshot.AddAllocation on a snapshot of allocationsByQueue
QueryAddAllocation ==
    /\ calls < MaxCalls
    /\ \E obj \in DOMAIN world.snaps, res \in SnapResources :
          /\ world' = AddAllocation(world, obj, res)
          /\ last' = SnapCall("AddAllocation", TreeOf(obj), obj, res)
    /\ calls' = calls + 1
    /\ UNCHANGED <<allocs, nodes, ask, live, env, now, p, released, gateLog, co>>

\* QueuePreemptionSnapshot.RemoveAllocation on a snapshot of allocationsByQueue
QueryRemoveAllocation ==
    /\ calls < MaxCalls
    /\ \E obj \in DOMAIN world.snaps, res \in SnapResources :
          /\ world' = RemoveAllocation(world, obj, res)
          /\ last' = SnapCall("RemoveAllocation", TreeOf(obj), obj, res)
    /\ calls' = calls + 1
    /\ UNCHANGED <<allocs, nodes, ask, live, env, now, p, released, gateLog, co>>

\* QueuePreemptionSnapshot.GetPreemptableResource; last.res is what it returns
CallGetPreemptableResource ==
    /\ \E obj \in DOMAIN world.snaps :
          last' = SnapCall("GetPreemptableResource", TreeOf(obj), obj,
                           GetPreemptableResource(world, obj))
    /\ UNCHANGED <<world, allocs, nodes, ask, live, env, now, p, released, gateLog, calls, co>>

\* QueuePreemptionSnapshot.GetRemainingGuaranteedResource; last.res is what
\* it returns
CallGetRemainingGuaranteedResource ==
    /\ \E obj \in DOMAIN world.snaps :
          last' = SnapCall("GetRemainingGuaranteedResource", TreeOf(obj), obj,
                           GetRemainingGuaranteedResource(world, obj))
    /\ UNCHANGED <<world, allocs, nodes, ask, live, env, now, p, released, gateLog, calls, co>>

QueryInit ==
    /\ now = 0
    /\ p = NoWorkingState
    /\ \E r2 \in {Vcore(1), Both(1, 1)}, queue \in {QB, QC}, g \in QueryProfiles :
          Scenario(Ask(Vcore(1), TRUE, "", 0, NeverChecked), 0, Vcore(MaxQty), r2,
                   [queue |-> queue, node |-> "n1"], g,
                   Situation(FALSE, Oracle("accept", "accept"), FALSE, NewResource,
                             "schedulable", NewResource))

QueryNext ==
    \/ QueryAddAllocation
    \/ QueryRemoveAllocation
    \/ CallGetPreemptableResource
    \/ CallGetRemainingGuaranteedResource

QuerySpec == QueryInit /\ [][QueryNext]_vars

\* C11: a call of GetPreemptableResource that returns a resource returns
\* one whose every component is strictly positive, whatever AddAllocation
\* and RemoveAllocation did to the snapshots before, and leaves every
\* snapshot and every one of their fields as it was
C11_PreemptablePositive ==
    [][last'.op = "GetPreemptableResource" =>
          /\ last'.res # NilRes => \A k \in DOMAIN last'.res : last'.res[k] > 0
          /\ world' = world]_vars

\* after a call that changed the snapshots, a snapshot with a type over its
\* guarantee and another type that is not: the result holds the first only
C11_Witness ==
    /\ last.op = "GetPreemptableResource"
    /\ calls > 0
    /\ last.res # NilRes
    /\ DOMAIN last.res # {}
    /\ DOMAIN Field(world, last.obj, "AllocatedResource") \ DOMAIN last.res # {}
    /\ Field(world, last.obj, "GuaranteedResource") # NilRes

\* C20: GetRemainingGuaranteedResource returns nil for a snapshot only when
\* neither the snapshot nor any of its ancestors has a guaranteed resource
\* that is not empty
C20_NilOnlyWithoutGuarantee ==
    (last.op = "GetRemainingGuaranteedResource" /\ last.res = NilRes) =>
        \A o \in PathToRoot(world, last.obj) : IsEmpty(Field(world, o, "GuaranteedResource"))

\* C12: the candidate order of each node that initWorkingState has built,
\* and the candidate order calculateAdditionalVictims builds, are the ones
\* every other iteration order of allocationsByQueue gives for the same
\* snapshots, potential victims and nodes, ties of the sort included
C12_OrderingStability ==
    p.ready =>
        \A o1, o2 \in QueueOrders :
            /\ p.allocationsByNode = initWorkingState(world, o1).allocationsByNode
            /\ buildPotentialVictims(world, {}, o1) = buildPotentialVictims(world, {}, o2)

(***************************************************************************)
(* The scenarios S1 to S4 of the specification, and their neighbours       *)
(***************************************************************************)
\* the snapshots of w whose queue is one of paths
Restrict(w, paths) ==
    [snaps |-> [o \in {x \in DOMAIN w.snaps : PathOf(x) \in paths} |-> w.snaps[o]],
     cells |-> [c \in {x \in DOMAIN w.cells : x[2] \in paths} |-> w.cells[c]],
     next |-> w.next]

\* the state of a scenario: the queues s.guaranteed is given for, with the
\* allocations s.al as potential victims, the nodes s.nodes and an ask of
\* s.ask in root.a
ScenarioState(s) ==
    /\ allocs = s.al
    /\ world = Restrict(Snapshots([path \in Paths |->
                                      IF path \in DOMAIN s.guaranteed
                                      THEN s.guaranteed[path] ELSE NilRes],
                                  [path \in Paths |-> NewResource], s.al),
                        DOMAIN s.guaranteed)
    /\ nodes = s.nodes
    /\ ask = Ask(s.ask, TRUE, "", 0, NeverChecked)
    /\ live = [path \in DOMAIN s.guaranteed |-> NewResource]
    /\ env = [preemptionDelay |-> 0, nodesTried |-> s.nodesTried, plugin |-> s.plugin,
              oracle |-> s.oracle]
    /\ released = <<>>
    /\ last = NoCall
    /\ gateLog = <<>>
    /\ calls = 0
    /\ co = NoBatches
    /\ now = 0

\* S1 and its neighbours: root and root.a with a guarantee of 10 and no
\* usage, no potential victim, n1 with 8 available
SingleNodeFit(askQty, plugin, nodesTried) ==
    [guaranteed |-> (Root :> Vcore(10)) @@ (QA :> Vcore(10)),
     al |-> <<>>,
     nodes |-> [n \in {"n1"} |-> Node("schedulable", Vcore(10), Vcore(8))],
     ask |-> Vcore(askQty),
     plugin |-> plugin,
     oracle |-> Oracle("accept", "accept"),
     nodesTried |-> nodesTried]

S1 == SingleNodeFit(4, TRUE, FALSE)

\* S2, S3, S4 and their neighbours: root with a guarantee of 10, root.a
\* guaranteed gA and unused, root.b guaranteed gB and running v1 (q1, on n1)
\* and v2 (q2, on a node that is no candidate); n1 with nothing available
SiblingOverGuarantee(gA, gB, q1, q2, askQty, plugin, answer) ==
    [guaranteed |-> (Root :> Vcore(10)) @@ (QA :> Vcore(gA)) @@ (QB :> Vcore(gB)),
     al |-> [k \in AllocKeys |->
                IF k = "v1" THEN Allocation(k, QB, "n1", Vcore(q1), FALSE, TRUE, 1)
                ELSE Allocation(k, QB, "n2", Vcore(q2), FALSE, TRUE, 1)],
     nodes |-> [n \in {"n1"} |-> Node("schedulable", Vcore(10), NewResource)],
     ask |-> Vcore(askQty),
     plugin |-> plugin,
     oracle |-> Oracle(answer, answer),
     nodesTried |-> FALSE]

S2 == SiblingOverGuarantee(5, 5, 3, 4, 3, TRUE, "accept")

S3 == SiblingOverGuarantee(5, 5, 1, 4, 3, TRUE, "accept")

S4 == SiblingOverGuarantee(2, 8, 5, 5, 3, TRUE, "accept")

\* root.a guaranteed 5 and unused, root.b guaranteed 1 and running the
\* victims of placing (key -> <<node, vcores>>), the nodes ids with nothing
\* available, and a plugin that accepts the nodes of accepting
Cluster(placing, ids, accepting) ==
    [guaranteed |-> (Root :> Vcore(40)) @@ (QA :> Vcore(5)) @@ (QB :> Vcore(1)),
     al |-> [k \in DOMAIN placing |->
                Allocation(k, QB, placing[k][1], Vcore(placing[k][2]), FALSE, TRUE, 1)],
     nodes |-> [n \in ids |-> Node("schedulable", Vcore(10), NewResource)],
     ask |-> Vcore(3),
     plugin |-> TRUE,
     oracle |-> [n \in ids |-> IF n \in accepting THEN "accept" ELSE "reject"],
     nodesTried |-> FALSE]

\* S6 and its neighbours: n1 needs its one victim (start index 0), n2 all of
\* its three (start index 2)
TwoCandidates(accepting) ==
    Cluster(("v1" :> <<"n1", 3>>) @@ ("v2" :> <<"n2", 1>>) @@ ("v3" :> <<"n2", 1>>)
                @@ ("v4" :> <<"n2", 1>>),
            {"n1", "n2"}, accepting)

\* more candidates than one batch of predicate checks holds: every node
\* with one victim that makes the ask fit
ManyCandidates(accepting) ==
    Cluster([k \in Range(KeyOrder) |->
                <<NodeNames[CHOOSE i \in 1..Len(KeyOrder) : KeyOrder[i] = k], 3>>],
            Range(NodeNames), accepting)

\* a candidate next to a node initWorkingState discards: root.a guaranteed 5
\* and unused, root.b guaranteed 1 and running v1 (1, on n1) and v2 (3, on
\* n2); n1 schedulable with `available`, n2 is the node `discarded`
DiscardedNeighbour(available, discarded) ==
    [guaranteed |-> (Root :> Vcore(10)) @@ (QA :> Vcore(5)) @@ (QB :> Vcore(1)),
     al |-> [k \in AllocKeys |->
                IF k = "v1" THEN Allocation(k, QB, "n1", Vcore(1), FALSE, TRUE, 1)
                ELSE Allocation(k, QB, "n2", Vcore(3), FALSE, TRUE, 1)],
     nodes |-> [n \in {"n1", "n2"} |->
                   IF n = "n1" THEN Node("schedulable", Vcore(10), available)
                   ELSE discarded],
     ask |-> Vcore(3),
     plugin |-> FALSE,
     oracle |-> Oracle("accept", "accept"),
     nodesTried |-> FALSE]

\* the nodes line 163 turns down for an ask of 3
DiscardedNodes ==
    {Node("unschedulable", Vcore(10), NewResource),
     Node("reservedOther", Vcore(10), NewResource),
     Node("schedulable", Vcore(2), NewResource)}

ScenarioInputs ==
    {SingleNodeFit(askQty, plugin, nodesTried) :
        askQty \in {4, 8, 9}, plugin \in BOOLEAN, nodesTried \in BOOLEAN}
    \cup {TwoCandidates(accepting) : accepting \in SUBSET {"n1", "n2"}}
    \cup {ManyCandidates(accepting) : accepting \in {{}, {"nb"}, {"n2", "nb"}, {"na"}}}
    \cup {[Cluster(("v1" :> <<"n2", 3>>) @@ ("v2" :> <<"n1", 1>>) @@ ("v3" :> <<"n1", 1>>)
                       @@ ("v4" :> <<"n1", 1>>),
                   {"n1", "n2"}, {"n1", "n2"}) EXCEPT !.plugin = plugin] :
             plugin \in BOOLEAN}
    \cup {Cluster(("v1" :> <<"n1", 3>>) @@ ("v2" :> <<"n2", 3>>), {"n1", "n2"}, {"n1", "n2"})}
    \cup {DiscardedNeighbour(available, discarded) :
             available \in {NewResource, Vcore(3)}, discarded \in DiscardedNodes}
    \cup {SiblingOverGuarantee(g[1], g[2], q1, q2, askQty, plugin, answer) :
             g \in {<<5, 5>>, <<2, 8>>}, q1 \in {1, 3, 5}, q2 \in {4, 5}, askQty \in {3, 4},
             plugin \in BOOLEAN, answer \in {"accept", "reject"}}

ScenarioInit ==
    /\ \E s \in ScenarioInputs : ScenarioState(s)
    /\ p = NoWorkingState

ScenarioSpec == ScenarioInit /\ [][Next]_vars

\* the result of calculateVictimsByNode for n1 in the state as it is
VictimsOfN1 ==
    LET ps == initWorkingState(world, CHOOSE o \in QueueOrders : TRUE)
    IN  calculateVictimsByNode(world, ps, nodes["n1"].available,
                               IF "n1" \in DOMAIN ps.allocationsByNode
                               THEN ps.allocationsByNode["n1"] ELSE <<>>)

\* C13 as the specification states it: in S1 calculateVictimsByNode returns
\* (-1, []) for n1 and TryPreemption returns a reserved allocation on n1,
\* the predicate check made with an empty list and no victim marked
C13_S1Reserved ==
    [][(ScenarioState(S1) /\ last'.op = "TryPreemption") =>
          /\ VictimsOfN1.index = 0 - 1
          /\ VictimsOfN1.victims = <<>> /\ ~VictimsOfN1.nilVictims
          /\ last'.ok /\ last'.nodeID = "n1"
          /\ last'.finalVictims = <<>>
          /\ allocs' = allocs /\ released' = released]_vars

\* C13, amended: in S1 calculateVictimsByNode returns (-1, []) for n1, and
\* TryPreemption, with no potential victim to remove in its precheck,
\* returns (nil, false) with PreemptionDoesNotGuarantee before any node is
\* looked at; no victim is marked, nothing is notified and the ask is not
\* marked
C13_S1Fails ==
    [][(ScenarioState(S1) /\ last'.op = "TryPreemption") =>
          /\ VictimsOfN1.index = 0 - 1
          /\ VictimsOfN1.victims = <<>> /\ ~VictimsOfN1.nilVictims
          /\ ~last'.ok /\ last'.code = "PreemptionDoesNotGuarantee" /\ ~last'.precheck
          /\ ~p'.ready
          /\ allocs' = allocs /\ released' = released /\ live' = live /\ ask' = ask]_vars

\* TryPreemption has returned in S1
C13_Witness ==
    /\ last.op = "TryPreemption"
    /\ allocs = S1.al /\ nodes = S1.nodes /\ ask.allocatedResource = S1.ask
    /\ env.plugin /\ ~env.nodesTried
    /\ FitIn(nodes["n1"].available, ask.allocatedResource)

\* C14 as the specification states it: in S2 the second pass returns index
\* 0, TryPreemption succeeds with victims exactly [v1] on n1, and the
\* preemptingResource of root.a, the queue of the ask, is incremented
C14_S2IncrementsAskQueue ==
    [][(ScenarioState(S2) /\ last'.op = "TryPreemption") =>
          /\ VictimsOfN1.index = 0
          /\ last'.ok /\ last'.nodeID = "n1"
          /\ last'.finalVictims = <<"v1">>
          /\ live'[QA] = Add(live[QA], allocs["v1"].allocatedResource)]_vars

\* C14, amended: in S2 the second pass returns index 0 with [v1],
\* TryPreemption succeeds with victims exactly [v1] on n1, and the
\* preemptingResource incremented (by what v1 holds) is that of root.b, the
\* queue v1 runs in; that of root.a stays as it was
C14_S2IncrementsVictimQueue ==
    [][(ScenarioState(S2) /\ last'.op = "TryPreemption") =>
          /\ VictimsOfN1.index = 0
          /\ VictimsOfN1.victims = <<"v1">>
          /\ last'.ok /\ last'.nodeID = "n1"
          /\ last'.finalVictims = <<"v1">>
          /\ released' = <<(<<"v1">>)>>
          /\ allocs'["v1"].preempted /\ ~allocs'["v2"].preempted
          /\ live'[QB] = Add(live[QB], allocs["v1"].allocatedResource)
          /\ live'[QA] = live[QA]
          /\ live'[Root] = live[Root]]_vars

\* TryPreemption has returned in S2, the plugin having accepted n1
C14_Witness ==
    /\ last.op = "TryPreemption"
    /\ Len(released) = 1
    /\ nodes = S2.nodes /\ ask.allocatedResource = S2.ask /\ env.plugin
    /\ world = Restrict(Snapshots([path \in Paths |->
                                      IF path \in DOMAIN S2.guaranteed
                                      THEN S2.guaranteed[path] ELSE NilRes],
                                  [path \in Paths |-> NewResource], S2.al),
                        DOMAIN S2.guaranteed)
    /\ allocs["v1"] = [S2.al["v1"] EXCEPT !.preempted = TRUE]
    /\ allocs["v2"] = S2.al["v2"]

\* the descriptors tryNodes sends for the state as it is
SentChecks ==
    Range(tryNodes(world, IF p.ready THEN p
                          ELSE initWorkingState(world, CHOOSE order \in QueueOrders : TRUE),
                   CHOOSE arrival \in Arrivals : TRUE).checks)

\* C15: with a plugin registered, the node tryNodes returns is one a
\* descriptor was sent for and the plugin did not reject; and when the
\* plugin accepts at least one of the descriptors sent, in whichever batch,
\* tryNodes returns a successful result, in whatever order the answers of a
\* batch come in
C15_CoordinatorSound ==
    (p.ready /\ env.plugin) =>
        \A arrival \in Arrivals :
            LET tn == tryNodes(world, p, arrival)
            IN  /\ tn.ok => /\ \E c \in SentChecks : c.NodeID = tn.nodeID
                            /\ env.oracle[tn.nodeID] # "reject"
                /\ (\E c \in SentChecks : env.oracle[c.NodeID] # "reject") => tn.ok

\* descriptors for more nodes than one batch holds were sent, the plugin
\* rejected the whole first batch, and the node of the second batch was
\* returned
C15_Witness ==
    /\ last.op = "TryPreemption"
    /\ p.ready /\ env.plugin
    /\ Cardinality(SentChecks) > preemptCheckConcurrency
    /\ env.oracle["n1"] = "reject"
    /\ \A arrival \in Arrivals : tryNodes(world, p, arrival).nodeID = "nb"
    /\ last.nodeID = "nb"

\* what tryNodes returns for the state as it is, the working state built in
\* the iteration order `order` unless it is there already
TryNodesFor(order, arrival) ==
    tryNodes(world, IF p.ready THEN p ELSE initWorkingState(world, order), arrival)

\* the plugin rejects every descriptor tryNodes sends
AllRejected(order) ==
    \A c \in Range(TryNodesFor(order, CHOOSE arrival \in Arrivals : TRUE).checks) :
        env.oracle[c.NodeID] = "reject"

\* C16: when the plugin rejects every one of the descriptors sent, tryNodes
\* comes through every batch with no best result and has no successful
\* result, and a TryPreemption that passed its precheck returns (nil, false)
\* with no failure code, having marked, notified and changed nothing
C16_AllRejected ==
    [][(/\ env.plugin
        /\ \A order \in QueueOrders : AllRejected(order)
        /\ last'.op = "TryPreemption" /\ last'.precheck) =>
          /\ \A order \in QueueOrders, arrival \in Arrivals : ~TryNodesFor(order, arrival).ok
          /\ ~last'.ok /\ last'.code = "" /\ last'.nodeID = ""
          /\ allocs' = allocs /\ live' = live /\ released' = released /\ ask' = ask]_vars

\* two batches of descriptors, every one rejected
C16_Witness ==
    /\ last.op = "TryPreemption"
    /\ last.precheck /\ env.plugin
    /\ Cardinality(SentChecks) > preemptCheckConcurrency
    /\ \A c \in SentChecks : env.oracle[c.NodeID] = "reject"
    /\ ~last.ok

(***************************************************************************)
(* calculateVictimsByNode, node by node                                    *)
(***************************************************************************)
\* the potential victims tryNodes hands over for node n (lines 526-530)
NodeInput(n) ==
    IF n \in DOMAIN p.allocationsByNode THEN p.allocationsByNode[n] ELSE <<>>

\* Preemptor.calculateVictimsByNode for one node of nodeAvailableMap; last
\* holds the index and the list returned, ok telling the list from nil
CalculateVictimsByNode ==
    /\ p.ready
    /\ \E n \in DOMAIN p.nodeAvailableMap :
       \E r \in {calculateVictimsByNode(world, p, p.nodeAvailableMap[n], NodeInput(n))} :
          /\ world' = r.w
          /\ last' = [NoCall EXCEPT !.op = "calculateVictimsByNode", !.nodeID = n,
                                    !.index = r.index, !.victims = r.victims,
                                    !.ok = ~r.nilVictims, !.log = r.log]
    /\ UNCHANGED <<allocs, nodes, ask, live, env, now, p, released, gateLog, calls, co>>

\* Preemptor.calculateAdditionalVictims for the victims tryNodes returns
\* (lines 567-575); last holds the victims handed in (finalVictims), the
\* iteration order of allocationsByQueue, and what is returned (ok, victims)
CalculateAdditionalVictims ==
    /\ p.ready
    /\ \E order \in QueueOrders, arrival \in Arrivals :
       \E tn \in {tryNodes(world, p, arrival)} :
       \E r \in {calculateAdditionalVictims(tn.w, p, tn.victims, order)} :
          /\ tn.ok
          /\ world' = r.w
          /\ last' = [NoCall EXCEPT !.op = "calculateAdditionalVictims",
                                    !.nodeID = tn.nodeID, !.finalVictims = tn.victims,
                                    !.order = order, !.victims = r.victims,
                                    !.ok = r.ok, !.log = r.log]
    /\ UNCHANGED <<allocs, nodes, ask, live, env, now, p, released, gateLog, calls, co>>

\* a preemptor with its work structures, in the scenarios of the
\* specification and in those of Init that have no plugin, root.a and root
\* also without a guarantee
NodeInit ==
    /\ \/ \E s \in ScenarioInputs : ScenarioState(s)
       \/ /\ now = 0
          /\ \E askRes \in AskResources, r1 \in Vcores, r2 \in VictimResources,
                layout \in Layouts,
                g \in GuaranteeProfiles \cup {[root |-> NilRes, a |-> NilRes, b |-> Vcore(1)]},
                sit \in {x \in Situations : ~x.plugin /\ x.state = "schedulable"} :
                Scenario(Ask(askRes, TRUE, "", 0, NeverChecked), 0, r1, r2, layout, g, sit)
    /\ \E order \in QueueOrders : p = initWorkingState(world, order)

NodeNext ==
    \/ CalculateVictimsByNode
    \/ CalculateAdditionalVictims
    \/ TryPreemption

NodeSpec == NodeInit /\ [][NodeNext]_vars

\* the first pass of calculateVictimsByNode for node n after the first i
\* potential victims: [w, nodeCurrentAvailable, head, tail, stop]
FirstPass(n, i) ==
    pass1([w |-> duplicateQueueSnapshots(world),
           nodeCurrentAvailable |-> Clone(p.nodeAvailableMap[n]),
           head |-> <<>>, tail |-> <<>>, stop |-> FALSE],
          p, world.next, Obj(world.next, ask.queuePath), SubSeq(NodeInput(n), 1, i), 1)

\* the victims the second pass of calculateVictimsByNode accepts for node n
SecondPass(n) ==
    pass2([w |-> duplicateQueueSnapshots(world),
           nodeCurrentAvailable |-> Clone(p.nodeAvailableMap[n]),
           index |-> 0 - 1, results |-> <<>>, log |-> <<>>],
          p, world.next,
          FirstPass(n, Len(NodeInput(n))).head \o FirstPass(n, Len(NodeInput(n))).tail,
          1).results

\* the ask fits node n once the first j allocations of list are gone
FitsWith(n, list, j) ==
    FitIn(Add(p.nodeAvailableMap[n], SumVictims(SubSeq(list, 1, j), allocs)),
          ask.allocatedResource)

\* C17: a non-negative index returned by calculateVictimsByNode lies inside
\* the list returned, the ask fits what the node has available plus the
\* victims up to and including that index, and does not fit with the
\* victims before it; and (-1, nil) is returned exactly when the ask does
\* not fit the node as it is nor with any prefix of the victims the second
\* pass accepts
C17_EarliestIndex ==
    last.op = "calculateVictimsByNode" =>
        /\ last.index >= 0 =>
              /\ last.ok
              /\ last.index < Len(last.victims)
              /\ FitsWith(last.nodeID, last.victims, last.index + 1)
              /\ ~FitsWith(last.nodeID, last.victims, last.index)
        /\ last.index >= 0 \/ last.index = 0 - 1
        /\ (last.index < 0 /\ ~last.ok) <=>
              \A j \in 0..Len(SecondPass(last.nodeID)) :
                  ~FitsWith(last.nodeID, SecondPass(last.nodeID), j)
        /\ (last.index < 0 /\ last.ok) =>
              last.victims = <<>> /\ FitsWith(last.nodeID, <<>>, 0)

\* an index past the first victim: the ask fits with two victims and not
\* with one
C17_Witness ==
    /\ last.op = "calculateVictimsByNode"
    /\ last.index > 0
    /\ Len(last.victims) > last.index

\* what is short of the ask in type k on a node with avail available,
\* truncated at zero
Shortfall(avail, k) ==
    IF Val(ask.allocatedResource, k) > Val(avail, k)
    THEN Val(ask.allocatedResource, k) - Val(avail, k) ELSE 0

\* freeing res on top of avail takes nothing off the shortfall
NoHelp(avail, res) ==
    \A k \in ResTypes : Shortfall(Add(avail, res), k) = Shortfall(avail, k)

\* the elements of sub stand in list, in the order of list, none twice
InOrderOf(sub, list) ==
    /\ \A a \in 1..Len(sub) : \E b \in 1..Len(list) : list[b] = sub[a]
    /\ \A a1, a2 \in 1..Len(sub) : \A b1, b2 \in 1..Len(list) :
          (a1 < a2 /\ list[b1] = sub[a1] /\ list[b2] = sub[a2]) => b1 < b2

\* C18: in the first pass an accepted victim goes to the tail exactly when
\* freeing it leaves the zero-truncated shortfall of the ask on the node as
\* it was, and to the head otherwise, also when the shortfall only gets
\* smaller; after a tail victim the allocated resource of every snapshot
\* and the available resource of the node are as before, after a head
\* victim the node has the victim's resource more; head and tail each keep
\* the order of the input and no victim stands twice in head ++ tail
C18_Partition ==
    last.op = "calculateVictimsByNode" =>
        /\ \A i \in 1..Len(NodeInput(last.nodeID)) :
              LET before == FirstPass(last.nodeID, i - 1)
                  after == FirstPass(last.nodeID, i)
                  key == NodeInput(last.nodeID)[i]
                  res == allocs[key].allocatedResource
              IN  /\ after.tail # before.tail =>
                        /\ after.tail = Append(before.tail, key)
                        /\ after.head = before.head
                        /\ NoHelp(before.nodeCurrentAvailable, res)
                        /\ SameAllocated(after.w, before.w)
                        /\ after.nodeCurrentAvailable = before.nodeCurrentAvailable
                  /\ after.head # before.head =>
                        /\ after.head = Append(before.head, key)
                        /\ after.tail = before.tail
                        /\ ~NoHelp(before.nodeCurrentAvailable, res)
                        /\ Equals(after.nodeCurrentAvailable,
                                  Add(before.nodeCurrentAvailable, res))
        /\ LET first == FirstPass(last.nodeID, Len(NodeInput(last.nodeID)))
           IN  /\ InOrderOf(first.head, NodeInput(last.nodeID))
               /\ InOrderOf(first.tail, NodeInput(last.nodeID))
               /\ Range(first.head) \cap Range(first.tail) = {}
               /\ (last.ok /\ last.index >= 0) =>
                     InOrderOf(last.victims, first.head \o first.tail)

\* a first victim that went to the tail and a second that went to the
\* head: the list of the first pass turns the input around
C18_Witness ==
    /\ last.op = "calculateVictimsByNode"
    /\ Len(NodeInput(last.nodeID)) = 2
    /\ FirstPass(last.nodeID, 1).tail = <<NodeInput(last.nodeID)[1]>>
    /\ FirstPass(last.nodeID, 2).head = <<NodeInput(last.nodeID)[2]>>

\* r has a negative quantity
Negative(r) == r # NilRes /\ \E k \in DOMAIN r : r[k] < 0

\* the queues, the node and the ask are those of scenario s
AtScenario(s) ==
    /\ nodes = s.nodes
    /\ ask.allocatedResource = s.ask
    /\ DOMAIN allocs = DOMAIN s.al
    /\ \A k \in DOMAIN s.al : allocs[k] = s.al[k]
    /\ PathsOf(world, OrigTree) = DOMAIN s.guaranteed
    /\ \A path \in DOMAIN s.guaranteed :
          Field(world, Obj(OrigTree, path), "GuaranteedResource") = s.guaranteed[path]

\* C19: in the first pass the remaining guarantee of the simulated ask
\* queue is nil or without a negative quantity after every victim kept in
\* the head; the first victim that passes the test of its own queue and
\* whose resource, added to the ask queue, makes that remaining guarantee
\* negative in some type stops the pass, the allocated resource of every
\* snapshot, the node's available resource, head and tail being as before
\* it, and the list of the first pass is what head and tail held then; the
\* pass stops for nothing else.  In S4 this happens at v1: the node gets
\* (-1, nil) and TryPreemption returns (nil, false)
C19_AskQueueOvershoot ==
    /\ last.op = "calculateVictimsByNode" =>
          \A i \in 1..Len(NodeInput(last.nodeID)) :
              LET before == FirstPass(last.nodeID, i - 1)
                  after == FirstPass(last.nodeID, i)
                  first == FirstPass(last.nodeID, Len(NodeInput(last.nodeID)))
                  key == NodeInput(last.nodeID)[i]
                  res == allocs[key].allocatedResource
                  askQueue == Obj(world.next, ask.queuePath)
                  queueSnapshot == Obj(world.next, p.queueByAlloc[key])
                  removed == RemoveAllocation(before.w, queueSnapshot, res)
                  allowed == VictimAllowed(GetPreemptableResource(removed, queueSnapshot),
                                           GetRemainingGuaranteedResource(before.w,
                                                                          queueSnapshot))
                  overshoot ==
                      Negative(GetRemainingGuaranteedResource(
                                   AddAllocation(removed, askQueue, res), askQueue))
              IN  ~before.stop =>
                    /\ after.head # before.head =>
                          ~Negative(GetRemainingGuaranteedResource(after.w, askQueue))
                    /\ after.stop <=> (allowed /\ overshoot)
                    /\ after.stop =>
                          /\ SameAllocated(after.w, before.w)
                          /\ after.nodeCurrentAvailable = before.nodeCurrentAvailable
                          /\ after.head = before.head /\ after.tail = before.tail
                          /\ first.head = before.head /\ first.tail = before.tail
    /\ (AtScenario(S4) /\ last.op = "calculateVictimsByNode" /\ last.nodeID = "n1") =>
          /\ FirstPass("n1", 1).stop
          /\ FirstPass("n1", 1).head = <<>> /\ FirstPass("n1", 1).tail = <<>>
          /\ last.index = 0 - 1 /\ ~last.ok
    /\ (AtScenario(S4) /\ last.op = "TryPreemption") => ~last.ok

\* a first victim kept in the head, a second that stops the pass
C19_Witness ==
    /\ last.op = "calculateVictimsByNode"
    /\ Len(NodeInput(last.nodeID)) = 2
    /\ FirstPass(last.nodeID, 1).head = <<NodeInput(last.nodeID)[1]>>
    /\ ~FirstPass(last.nodeID, 1).stop
    /\ FirstPass(last.nodeID, 2).stop

(***************************************************************************)
(* calculateAdditionalVictims                                              *)
(***************************************************************************)
\* the loop of calculateAdditionalVictims (lines 442-510) for the call that
\* last describes, as it leaves the duplicated map: [w, victims, stop, log]
ExtraPass ==
    LET t == world.next
        removed == removeNodeVictims([w |-> duplicateQueueSnapshots(world), seen |-> {}],
                                     p, t, last.finalVictims, 1)
    IN  extraLoop([w |-> removed.w, victims |-> <<>>, stop |-> FALSE, log |-> <<>>],
                  p, t, Obj(t, ask.queuePath),
                  buildPotentialVictims(world, removed.seen, last.order), 1)

\* the remaining guarantee of the ask queue in a fresh copy of the map from
\* which the allocations of gone have left their queues and in which those
\* of moved count for the ask queue
RemainingWith(gone, moved) ==
    LET t == world.next
        RECURSIVE put(_, _)
        put(w, i) == IF i > Len(moved) THEN w
                     ELSE put(AddAllocation(w, Obj(t, ask.queuePath),
                                            allocs[moved[i]].allocatedResource), i + 1)
    IN  GetRemainingGuaranteedResource(
            put(RemoveVictims(duplicateQueueSnapshots(world), t, gone), 1),
            Obj(t, ask.queuePath))

\* r is a resource without a negative quantity
NonNegative(r) == r # NilRes /\ \A k \in DOMAIN r : r[k] >= 0

\* C21: calculateAdditionalVictims returns (victims, true) exactly when the
\* remaining guarantee of the ask queue is, at the end of its loop, non-nil
\* and not negative in any type, which is the remaining guarantee once the
\* node victims and the victims returned have left their queues and the
\* victims returned count for the ask queue; otherwise it returns (nil,
\* false).  And with no guarantee on any queue from the ask queue up to the
\* root TryPreemption does not succeed
C21_AdditionalVictimsVerdict ==
    /\ last.op = "calculateAdditionalVictims" =>
          /\ last.ok <=> NonNegative(GetRemainingGuaranteedResource(
                                         ExtraPass.w, Obj(world.next, ask.queuePath)))
          /\ last.ok => /\ last.victims = ExtraPass.victims
                         /\ NonNegative(RemainingWith(last.finalVictims \o last.victims,
                                                      last.victims))
          /\ ~last.ok => last.victims = <<>>
    /\ (/\ last.op = "TryPreemption"
        /\ \A o \in PathToRoot(world, Obj(OrigTree, ask.queuePath)) :
              IsEmpty(Field(world, o, "GuaranteedResource"))) => ~last.ok

\* calculateAdditionalVictims has failed for an ask queue with no guarantee
\* up to the root, its remaining guarantee being nil
C21_Witness ==
    /\ last.op = "calculateAdditionalVictims"
    /\ ~last.ok
    /\ GetRemainingGuaranteedResource(ExtraPass.w, Obj(world.next, ask.queuePath)) = NilRes
    /\ \A o \in PathToRoot(world, Obj(OrigTree, ask.queuePath)) :
          IsEmpty(Field(world, o, "GuaranteedResource"))

(***************************************************************************)
(* The predicate coordinator without a plugin                              *)
(***************************************************************************)
\* the descriptors tryNodes builds for the state as it is, in the order in
\* which it came by the nodes
Descriptors == tryNodes(world, p, CHOOSE arrival \in Arrivals : TRUE).checks

\* the victims of the nodes a descriptor was built for
VictimsByNode(checks) ==
    [n \in {c.NodeID : c \in Range(checks)} |->
        (CHOOSE c \in Range(checks) : c.NodeID = n).PreemptAllocationKeys]

\* the descriptor of checks with the smallest start index, the one with the
\* smallest node id among several
BestDescriptor(checks) ==
    CHOOSE c \in Range(checks) :
        \A d \in Range(checks) :
            \/ c.StartIndex < d.StartIndex
            \/ c.StartIndex = d.StartIndex /\ NodeRank(c.NodeID) <= NodeRank(d.NodeID)

\* C22: without a plugin, and with a descriptor or more, the coordinator
\* returns a successful result for the node of the descriptor with the
\* smallest start index (the smallest node id among equals), whatever the
\* order in which the descriptors were built; its index is that start index
\* and its victims the first index + 1 of the node, none for -1; tryNodes and
\* a successful TryPreemption return that node.  Without a descriptor the
\* coordinator returns nil
C22_NoPluginFirstDescriptor ==
    (p.ready /\ ~env.plugin) =>
        /\ checkPreemptionPredicates(<<>>, <<>>, p, NodeOrder).nil
        /\ \A tn \in {tryNodes(world, p, NodeOrder)} :
              /\ tn.checks = <<>> => ~tn.ok
              /\ tn.checks # <<>> =>
                    \A best \in {BestDescriptor(tn.checks)} :
                       /\ \A list \in Perms(Range(tn.checks)) :
                          \A result \in {checkPreemptionPredicates(
                                              list, VictimsByNode(tn.checks), p, NodeOrder)} :
                             /\ ~result.nil /\ result.success
                             /\ result.nodeID = best.NodeID
                             /\ result.index = best.StartIndex
                             /\ result.victims = SubSeq(best.PreemptAllocationKeys, 1,
                                                        best.StartIndex + 1)
                             /\ best.StartIndex = 0 - 1 => result.victims = <<>>
                       /\ tn.ok /\ tn.nodeID = best.NodeID
                       /\ (last.op = "TryPreemption" /\ last.ok) => last.nodeID = best.NodeID

\* TryPreemption has returned n2, whose descriptor has the smaller start
\* index, n1 having a descriptor as well
C22_Witness ==
    /\ p.ready /\ ~env.plugin
    /\ last.op = "TryPreemption" /\ last.ok /\ last.nodeID = "n2"
    /\ Len(Descriptors) = 2
    /\ \E c, d \in Range(Descriptors) :
          c.NodeID = "n1" /\ d.NodeID = "n2" /\ d.StartIndex < c.StartIndex

(***************************************************************************)
(* checkPreemptionPredicates with its goroutines                           *)
(***************************************************************************)
\* the batches of the call under way (line 394)
Batches == batchPreemptionChecks(co.sorted, preemptCheckConcurrency)

\* the state of a batch about to be dispatched (lines 397-399)
NewBatch(c, b) ==
    [c EXCEPT !.pc = "spawn", !.b = b, !.spawned = 0, !.ch = {},
              !.cap = Len(batchPreemptionChecks(c.sorted, preemptCheckConcurrency)[b]),
              !.wg = 0, !.closer = "none", !.closed = FALSE, !.expected = 0,
              !.received = 0]

\* checkPreemptionPredicates is called with the descriptors of tryNodes
\* (lines 359-399): it returns at once for no descriptor and without a
\* plugin, and stands before its first batch otherwise
CallCheckPreemptionPredicates ==
    /\ co.pc = "idle"
    /\ p.ready
    /\ \E tn \in {tryNodes(world, p, CHOOSE arrival \in Arrivals : TRUE)} :
          co' = IF Len(tn.checks) = 0 THEN [NoBatches EXCEPT !.pc = "returned"]
                ELSE IF ~env.plugin
                THEN [NoBatches EXCEPT
                        !.pc = "returned",
                        !.sorted = SortChecks(tn.checks),
                        !.victimsByNode = VictimsByNode(tn.checks),
                        !.result = checkPreemptionPredicates(
                                       tn.checks, VictimsByNode(tn.checks), p, NodeOrder)]
                ELSE NewBatch([NoBatches EXCEPT !.sorted = SortChecks(tn.checks),
                                                !.victimsByNode = VictimsByNode(tn.checks)],
                              1)
    /\ UNCHANGED <<world, allocs, nodes, ask, live, env, now, p, released, last, gateLog, calls>>

\* lines 400-405: the task of the next descriptor of the batch is started
StartTask ==
    /\ co.pc = "spawn"
    /\ co.spawned < Len(Batches[co.b])
    /\ co' = [co EXCEPT !.wg = @ + 1, !.expected = @ + 1, !.spawned = @ + 1,
                        !.running = @ \cup {Batches[co.b][co.spawned + 1].NodeID}]
    /\ UNCHANGED <<world, allocs, nodes, ask, live, env, now, p, released, last, gateLog, calls>>

\* lines 407-410: the goroutine that waits and closes is started, and the
\* coordinator goes on to its receive loop
StartCloser ==
    /\ co.pc = "spawn"
    /\ co.spawned = Len(Batches[co.b])
    /\ co' = [co EXCEPT !.closer = "waiting", !.pc = "receive"]
    /\ UNCHANGED <<world, allocs, nodes, ask, live, env, now, p, released, last, gateLog, calls>>

\* preemptPredicateCheck: the call of a task to the shim returns, the task
\* writes its result to the channel and is done; a send on a full channel
\* waits, a send on a closed channel panics
TaskSends ==
    /\ \E n \in co.running :
       \E args \in {c \in Range(co.sorted) : c.NodeID = n} :
          IF co.closed
          THEN co' = [co EXCEPT !.running = @ \ {n}, !.panic = TRUE]
          ELSE /\ Cardinality(co.ch) < co.cap
               /\ co' = [co EXCEPT !.running = @ \ {n},
                                   !.ch = @ \cup {preemptPredicateCheck(args)},
                                   !.wg = @ - 1]
    /\ UNCHANGED <<world, allocs, nodes, ask, live, env, now, p, released, last, gateLog, calls>>

\* the goroutine of lines 407-410 without wg.Wait(): it closes the channel
\* as soon as it runs
MutCloserCloses ==
    /\ co.closer = "waiting"
    /\ co' = [co EXCEPT !.closer = "done", !.closed = TRUE]
    /\ UNCHANGED <<world, allocs, nodes, ask, live, env, now, p, released, last, gateLog, calls>>

\* lines 408-409: wg.Wait() returns once the counter is zero, and the
\* channel is closed
CloserCloses ==
    /\ co.closer = "waiting"
    /\ co.wg = 0
    /\ co' = [co EXCEPT !.closer = "done", !.closed = TRUE]
    /\ UNCHANGED <<world, allocs, nodes, ask, live, env, now, p, released, last, gateLog, calls>>

\* lines 411-420: the coordinator receives a result; the tasks send in any
\* order, so that the result received next is any of those in the channel
Receive ==
    /\ co.pc = "receive"
    /\ \E result \in co.ch :
          co' = [co EXCEPT !.ch = @ \ {result},
                           !.received = @ + 1,
                           !.got = @ \cup {result.nodeID},
                           !.bestResult = receiveResults(@, <<result>>, 1,
                                                         p.allocationsByNode)]
    /\ UNCHANGED <<world, allocs, nodes, ask, live, env, now, p, released, last, gateLog, calls>>

\* the receive loop with `closed` left out of its end: it is over as soon as
\* the channel is empty
MutEndOfBatch ==
    /\ co.pc = "receive"
    /\ co.ch = {}
    /\ co' = IF isSatisfactory(co.bestResult, p.allocationsByNode) \/ co.b = Len(Batches)
             THEN [co EXCEPT !.pc = "returned",
                             !.ends = Append(@, co.bestResult),
                             !.result = populateVictims(co.bestResult, co.victimsByNode)]
             ELSE NewBatch([co EXCEPT !.ends = Append(@, co.bestResult)], co.b + 1)
    /\ UNCHANGED <<world, allocs, nodes, ask, live, env, now, p, released, last, gateLog, calls>>

\* lines 411 and 420-427: the channel is closed and empty, the receive loop
\* is over; a satisfactory best result or the last batch ends the loop over
\* the batches and the call returns, the next batch is set up otherwise
EndOfBatch ==
    /\ co.pc = "receive"
    /\ co.ch = {} /\ co.closed
    /\ co' = IF isSatisfactory(co.bestResult, p.allocationsByNode) \/ co.b = Len(Batches)
             THEN [co EXCEPT !.pc = "returned",
                             !.ends = Append(@, co.bestResult),
                             !.result = populateVictims(co.bestResult, co.victimsByNode)]
             ELSE NewBatch([co EXCEPT !.ends = Append(@, co.bestResult)], co.b + 1)
    /\ UNCHANGED <<world, allocs, nodes, ask, live, env, now, p, released, last, gateLog, calls>>

\* a preemptor with its work structures in the scenarios with one or two
\* nodes, and in a cluster of eleven nodes where the plugin accepts the last
\* node only, or the second and the last
CoordinatorInit ==
    /\ \E s \in {x \in ScenarioInputs : Cardinality(DOMAIN x.nodes) <= 2}
                \cup {ManyCandidates({"nb"}), ManyCandidates({"n2", "nb"})} :
          ScenarioState(s)
    /\ \E order \in QueueOrders : p = initWorkingState(world, order)

CoordinatorNext ==
    \/ CallCheckPreemptionPredicates
    \/ StartTask
    \/ StartCloser
    \/ TaskSends
    \/ CloserCloses
    \/ Receive
    \/ EndOfBatch

CoordinatorSpec == CoordinatorInit /\ [][CoordinatorNext]_vars

\* the nodes of the descriptors of batch k
BatchNodes(k) == {c.NodeID : c \in Range(Batches[k])}

\* the nodes whose task was started, in this batch or an earlier one
Started == co.running \cup {r.nodeID : r \in co.ch} \cup co.got

\* how many descriptors the batches before batch k hold
RECURSIVE Before(_)
Before(k) == IF k <= 1 THEN 0 ELSE Before(k - 1) + Len(Batches[k - 1])

\* C23: the descriptors are dispatched in the order of the sort (start
\* index, then node id), in consecutive batches of at most
\* preemptCheckConcurrency; a task of a batch is started only when the
\* result of every task of the batches before it has been received, so that
\* at most preemptCheckConcurrency calls to the shim are outstanding; and a
\* batch is dispatched only if the best result at the end of the batch
\* before it was not satisfactory
C23_BatchSequencing ==
    co.b >= 1 =>
        /\ \A i, j \in 1..Len(co.sorted) :
              i < j => \/ co.sorted[i].StartIndex < co.sorted[j].StartIndex
                       \/ /\ co.sorted[i].StartIndex = co.sorted[j].StartIndex
                          /\ NodeRank(co.sorted[i].NodeID) < NodeRank(co.sorted[j].NodeID)
        /\ Concat(Batches) = co.sorted
        /\ \A k \in 1..Len(Batches) :
              /\ Len(Batches[k]) >= 1 /\ Len(Batches[k]) <= preemptCheckConcurrency
              /\ k < Len(Batches) => Len(Batches[k]) = preemptCheckConcurrency
        /\ Started = {co.sorted[i].NodeID : i \in 1..(Before(co.b) + co.spawned)}
        /\ co.running \subseteq BatchNodes(co.b)
        /\ Cardinality(co.running) <= preemptCheckConcurrency
        /\ \A k \in 1..(co.b - 1) : BatchNodes(k) \subseteq co.got
        /\ \A k \in 1..Len(co.ends) :
              k < co.b => ~isSatisfactory(co.ends[k], p.allocationsByNode)
        /\ (co.pc = "returned" /\ co.b < Len(Batches)) =>
              isSatisfactory(co.ends[co.b], p.allocationsByNode)

\* the task of the second batch has its call outstanding, the ten results
\* of the first batch received
C23_Witness ==
    /\ co.b = 2
    /\ co.running # {}
    /\ Cardinality(co.got) = preemptCheckConcurrency

\* the steps of the goroutines of a call under way
CoordinatorRuns ==
    \/ StartTask
    \/ StartCloser
    \/ TaskSends
    \/ CloserCloses
    \/ Receive
    \/ EndOfBatch

\* a goroutine that can take a step takes one in the end: the calls to the
\* shim return, and the scheduler runs what is runnable
CoordinatorLiveSpec == CoordinatorSpec /\ WF_vars(CoordinatorRuns)

\* what holds of the channel of the batch under way at every moment
ChannelSafe ==
    co.b >= 1 =>
        /\ ~co.panic
        /\ co.cap = Len(Batches[co.b])
        /\ Cardinality(co.ch) + Cardinality(co.running) + co.received = co.spawned
        /\ co.running # {} => Cardinality(co.ch) < co.cap /\ ~co.closed
        /\ co.running \cap {r.nodeID : r \in co.ch} = {}
        /\ (co.running \cup {r.nodeID : r \in co.ch}) \cap co.got = {}
        /\ Cardinality({r.nodeID : r \in co.ch}) = Cardinality(co.ch)
        /\ co.wg = Cardinality(co.running)
        /\ co.closed => co.spawned = Len(Batches[co.b]) /\ co.running = {}
        /\ (co.closed /\ co.ch = {}) =>
              /\ co.received = co.expected /\ co.expected = Len(Batches[co.b])
              /\ BatchNodes(co.b) \subseteq co.got
        /\ Len(co.ends) = (IF co.pc = "returned" THEN co.b ELSE co.b - 1)

\* C24: in every batch and every interleaving of the tasks, the closing
\* goroutine and the coordinator, a task sends one result and no more, a
\* send finds room in the channel (its capacity is the size of the batch),
\* the channel is closed only when every task has sent, so that no task
\* sends on a closed channel, the coordinator has received as many results
\* as the batch has descriptors when its loop ends, and, the calls to the
\* shim returning, checkPreemptionPredicates returns
C24_ChannelProtocol == []ChannelSafe /\ (co.pc # "idle" ~> co.pc = "returned")

\* the channel of a batch of ten is closed, its ten results received
C24_Witness ==
    /\ co.pc = "receive" /\ co.closed /\ co.ch = {}
    /\ co.received = preemptCheckConcurrency

\* C25: the result checkPreemptionPredicates returns is the one it returns
\* when the results of every batch come in in the order of the descriptors:
\* the same node and the same victims for the same descriptors and the same
\* answers of the plugin, whatever the order in which the tasks of a batch
\* deliver, two successful results of equal score included
C25_Reproducible ==
    co.pc = "returned" =>
        \A inOrder \in {checkPreemptionPredicates(co.sorted, co.victimsByNode, p, NodeNames)} :
            /\ co.result.nil = inOrder.nil
            /\ co.result.nodeID = inOrder.nodeID
            /\ co.result.victims = inOrder.victims

(***************************************************************************)
(* The feasibility precheck and the order of the removals                  *)
(***************************************************************************)
\* the potential victims of the snapshots
AllPotentialVictims ==
    UNION {{world.snaps[Obj(OrigTree, path)].PotentialVictims[i] :
               i \in DOMAIN world.snaps[Obj(OrigTree, path)].PotentialVictims} :
           path \in PathsOf(world, OrigTree)}

\* up to how many potential victims every order of removal is tried, queue
\* boundaries left aside
MaxInterleaved == 4

\* the ask queue's remaining guarantee is reached after one of the removals
\* `keys` lists, made in that order on the snapshots of tree t
RECURSIVE RemovedInTurn(_, _, _, _)
RemovedInTurn(w, t, keys, i) ==
    IF i > Len(keys) THEN FALSE
    ELSE \E r \in {removeUntilFits(w, Obj(t, allocs[keys[i]].queuePath),
                                    Obj(t, ask.queuePath), <<keys[i]>>, 1)} :
            r.ok \/ RemovedInTurn(r.w, t, keys, i + 1)

\* the verdict of the precheck with the victims removed in the order `keys`
VerdictInOrder(keys) ==
    \E queues \in {duplicateQueueSnapshots(world)} :
        /\ Obj(world.next, ask.queuePath) \in DOMAIN queues.snaps
        /\ RemovedInTurn(AddAllocation(queues, Obj(world.next, ask.queuePath),
                                       ask.allocatedResource),
                         world.next, keys, 1)

\* C26: checkPreemptionQueueGuarantees answers the same for every order in
\* which the snapshots are visited, and, up to MaxInterleaved victims, for
\* every order in which the potential victims are removed; the answer is
\* false when there is no potential victim; TryPreemption acts on that answer
C26_PrecheckOrderFree ==
    \A o1 \in QueueOrders :
    \A verdict \in {checkPreemptionQueueGuarantees(world, o1).ok} :
        /\ \A o2 \in QueueOrders : checkPreemptionQueueGuarantees(world, o2).ok = verdict
        /\ Cardinality(AllPotentialVictims) <= MaxInterleaved =>
               \A keys \in Perms(AllPotentialVictims) : VerdictInOrder(keys) = verdict
        /\ AllPotentialVictims = {} => ~verdict
        /\ last.op = "TryPreemption" => last.precheck = verdict

\* TryPreemption went past the precheck with potential victims in two queues,
\* the removal of one of which is enough and of the other is not
C26_Witness ==
    /\ last.op = "TryPreemption"
    /\ last.precheck
    /\ Cardinality(AllPotentialVictims) = 2
    /\ Cardinality(QueueOrders) = 2
    /\ \E k \in AllPotentialVictims : VerdictInOrder(<<k>>)
    /\ \E k \in AllPotentialVictims : ~VerdictInOrder(<<k>>)

(***************************************************************************)
(* Nodes turned down by initWorkingState                                   *)
(***************************************************************************)
\* node n is unschedulable, reserved for another allocation, or too small
\* for the ask when empty
Discarded(n) ==
    /\ n \in DOMAIN nodes
    /\ \/ nodes[n].state = "unschedulable"
       \/ nodes[n].state = "reservedOther"
       \/ \E t \in DOMAIN ask.allocatedResource :
             ask.allocatedResource[t] > Val(nodes[n].capacity, t)

Rerouted(w, t) ==
    [w EXCEPT !.snaps = [x \in DOMAIN w.snaps |->
                            IF TreeOf(x) = t /\ w.snaps[x].AskQueue # NilSnap
                            THEN [w.snaps[x] EXCEPT !.AskQueue = Obj(t, ask.queuePath)]
                            ELSE w.snaps[x]]]

\* the second conjunct of C28 alone
RemainingFromSimulatedUsage ==
    \A w \in {AddAllocation(duplicateQueueSnapshots(world), Obj(world.next, ask.queuePath),
                             ask.allocatedResource)} :
    \A o \in {x \in DOMAIN w.snaps : TreeOf(x) = world.next} :
        GetRemainingGuaranteedResource(w, o)
            = GetRemainingGuaranteedResource(Rerouted(w, world.next), o)

\* C28: in the map duplicateQueueSnapshots makes and the ask is added to (as
\* checkPreemptionQueueGuarantees does), the AskQueue of every snapshot is the
\* ask-queue snapshot of that map, and GetRemainingGuaranteedResource on
\* every snapshot of the map is what it is with the usage of that snapshot
C28_AskQueueOfSameTree ==
    /\ \A w \in {duplicateQueueSnapshots(world)} :
       \A o \in {x \in DOMAIN w.snaps : TreeOf(x) = world.next} :
           w.snaps[o].AskQueue = Obj(world.next, ask.queuePath)
    /\ RemainingFromSimulatedUsage

(***************************************************************************)
(* No victim twice                                                         *)
(***************************************************************************)
\* no element of list occurs at two positions
NoRepeats(list) == \A i, j \in DOMAIN list : list[i] = list[j] => i = j

\* C29: the victims calculateAdditionalVictims returns are pairwise distinct
\* and none of them is a victim of the node it was handed; the list
\* TryPreemption merges and the list it commits hold no allocation twice, and
\* the first attempt that commits leaves exactly its victims marked preempted
\* and each queue's preemptingResource at the resources of its victims,
\* every victim counted once
C29_NoVictimTwice ==
    /\ last.op = "calculateAdditionalVictims" =>
          /\ NoRepeats(last.victims)
          /\ Range(last.victims) \cap Range(last.finalVictims) = {}
    /\ last.op = "TryPreemption" /\ last.ok =>
          /\ NoRepeats(last.victims)
          /\ NoRepeats(last.finalVictims)
    /\ Len(released) = 1 =>
          /\ {k \in DOMAIN allocs : allocs[k].preempted} = Range(released[1])
          /\ \A path \in DOMAIN live :
                live[path] = SumRes({k \in Range(released[1]) : allocs[k].queuePath = path},
                                    allocs)

\* calculateAdditionalVictims was handed the victims of a node and returned
\* more, with a potential victim left that is in neither list
C29_Witness ==
    /\ last.op = "calculateAdditionalVictims"
    /\ last.ok
    /\ last.finalVictims # <<>>
    /\ last.victims # <<>>
    /\ AllPotentialVictims \ (Range(last.victims) \cup Range(last.finalVictims)) # {}

====
